---- MODULE Spec2Model ----
(***************************************************************************)
(* AURA dashboard: the client-side coverage estimator.                     *)
(*                                                                         *)
(* Two screens compute a repository's test coverage in the browser from    *)
(* the backend's file listing, its analyses and its generated-test         *)
(* records: the RepositoryDetails page (on every render) and the           *)
(* Repositories list page (in loadRepositories).  Both are modelled here,  *)
(* each from its own code.                                                 *)
(*                                                                         *)
(* A JavaScript string is a sequence of one-character strings, so that     *)
(* toLowerCase, includes, replace, lastIndexOf, substring and split are    *)
(* computed, not assumed.  A number that the code computes in floating     *)
(* point is kept exact: totalCoverage is a fraction [num, den], and the    *)
(* value rounded to one decimal place is an integer count of tenths.       *)
(***************************************************************************)
EXTENDS Integers, Sequences, FiniteSets, Bags, TLC

(***************************************************************************)
(* Bounds of the model.                                                    *)
(***************************************************************************)
MaxFiles == 3
MaxTests == 1

(***************************************************************************)
(* JavaScript strings.                                                     *)
(***************************************************************************)
UpperCase == <<"A","B","C","D","E","F","G","H","I","J","K","L","M",
               "N","O","P","Q","R","S","T","U","V","W","X","Y","Z">>
LowerCase == <<"a","b","c","d","e","f","g","h","i","j","k","l","m",
               "n","o","p","q","r","s","t","u","v","w","x","y","z">>

LowerChar(c) ==
  IF \E i \in 1..26 : UpperCase[i] = c
  THEN LowerCase[CHOOSE i \in 1..26 : UpperCase[i] = c]
  ELSE c

\* String.prototype.toLowerCase
toLowerCase(s) == [i \in 1..Len(s) |-> LowerChar(s[i])]

\* does pat occur in s at the 0-based position i
OccursAt(s, pat, i) ==
  /\ i >= 0
  /\ i + Len(pat) <= Len(s)
  /\ \A k \in 1..Len(pat) : s[i + k] = pat[k]

\* String.prototype.includes
includes(s, pat) == \E i \in 0..Len(s) : OccursAt(s, pat, i)

\* String.prototype.indexOf: the first position of pat, or -1
indexOf(s, pat) ==
  IF includes(s, pat)
  THEN CHOOSE i \in 0..Len(s) :
         OccursAt(s, pat, i) /\ \A j \in 0..(i - 1) : ~OccursAt(s, pat, j)
  ELSE -1

\* String.prototype.lastIndexOf: the last position of pat, or -1
lastIndexOf(s, pat) ==
  IF includes(s, pat)
  THEN CHOOSE i \in 0..Len(s) :
         OccursAt(s, pat, i) /\ \A j \in (i + 1)..Len(s) : ~OccursAt(s, pat, j)
  ELSE -1

Clamp(n, len) == IF n < 0 THEN 0 ELSE IF n > len THEN len ELSE n

\* String.prototype.substring(start, end): negative arguments count as 0,
\* arguments past the end as the length, and the two are swapped if needed
substring(s, start, end) ==
  LET a == Clamp(start, Len(s))
      b == Clamp(end, Len(s))
      lo == IF a <= b THEN a ELSE b
      hi == IF a <= b THEN b ELSE a
  IN  SubSeq(s, lo + 1, hi)

\* s.replace(/pat/, rep) for a pattern without metacharacters and without
\* the g flag: the first occurrence only
replaceFirst(s, pat, rep) ==
  LET i == indexOf(s, pat)
  IN  IF i = -1 THEN s
      ELSE SubSeq(s, 1, i) \o rep \o SubSeq(s, i + Len(pat) + 1, Len(s))

\* s.replace(/^pat/, rep)
replacePrefix(s, pat, rep) ==
  IF OccursAt(s, pat, 0) THEN rep \o SubSeq(s, Len(pat) + 1, Len(s)) ELSE s

\* s.replace(/^(p1|p2|...)/, ''): the first alternative, in the order
\* written, that matches at the start is removed
replacePrefixAlt(s, alts) ==
  IF \E k \in 1..Len(alts) : OccursAt(s, alts[k], 0)
  THEN LET k == CHOOSE k \in 1..Len(alts) :
                  /\ OccursAt(s, alts[k], 0)
                  /\ \A j \in 1..(k - 1) : ~OccursAt(s, alts[j], 0)
       IN  SubSeq(s, Len(alts[k]) + 1, Len(s))
  ELSE s

\* s.replace(/\.(e1|e2|...)$/, ''): a final "." followed by one of the
\* listed extensions is removed
replaceExtension(s, exts) ==
  IF \E k \in 1..Len(exts) :
       OccursAt(s, <<".">> \o exts[k], Len(s) - Len(exts[k]) - 1)
  THEN LET k == CHOOSE k \in 1..Len(exts) :
                  OccursAt(s, <<".">> \o exts[k], Len(s) - Len(exts[k]) - 1)
       IN  SubSeq(s, 1, Len(s) - Len(exts[k]) - 1)
  ELSE s

\* s.split('/').pop(): what follows the last "/", the whole string if none
splitPop(s) == SubSeq(s, lastIndexOf(s, <<"/">>) + 2, Len(s))


\* find returning the last element that satisfies the predicate
findIndex_last(hits) ==
  IF \E i \in 1..Len(hits) : hits[i]
  THEN CHOOSE i \in 1..Len(hits) : hits[i] /\ \A j \in (i + 1)..Len(hits) : ~hits[j]
  ELSE 0

\* Array.prototype.find as an index: hits[i] tells whether the callback
\* accepts the i-th element; the result is the first accepted element, 0
\* when there is none (find returns undefined)
findIndex(hits) ==
  IF \E i \in 1..Len(hits) : hits[i]
  THEN CHOOSE i \in 1..Len(hits) : hits[i] /\ \A j \in 1..(i - 1) : ~hits[j]
  ELSE 0

\* the elements of an array, as a set
Elements(arr) == {arr[i] : i \in 1..Len(arr)}

(***************************************************************************)
(* What the backend can hold for the repository: the records the inputs    *)
(* are drawn from.  Ids are positive; a null analysis_id is 0 and a null   *)
(* test_file_path is the empty string.                                     *)
(***************************************************************************)
\* a field that the record does not have
undefined == <<"undefined">>

File(name, path, ext) == [name |-> name, relative_path |-> path, extension |-> ext]

FilePool ==
  { File(<<"c","a","l","c",".","p","y">>, <<"s","r","c","/","c","a","l","c",".","p","y">>, <<".","p","y">>),
    File(<<"c","a","l","c",".","p","y">>, <<"l","i","b","/","c","a","l","c",".","p","y">>, <<".","p","y">>),
    File(<<"u","t","i","l",".","p","y">>, <<"s","r","c","/","u","t","i","l",".","p","y">>, <<".","p","y">>),
    File(<<"c","a","l","c",".","t","e","s","t",".","j","s">>, <<"s","r","c","/","c","a","l","c",".","t","e","s","t",".","j","s">>, <<".","j","s">>),
    File(<<"T","e","s","t","_","c","a","l","c",".","p","y">>, <<"t","e","s","t","s","/","T","e","s","t","_","c","a","l","c",".","p","y">>, <<".","p","y">>),
    File(<<"u","t","i","l","_","t","e","s","t",".","P","Y">>, <<"s","r","c","/","u","t","i","l","_","t","e","s","t",".","P","Y">>, <<".","P","Y">>),
    File(<<"R","E","A","D","M","E",".","m","d">>, <<"R","E","A","D","M","E",".","m","d">>, <<".","m","d">>) }

\* a source file with a one-letter name and the test file of another module
ExampleFiles ==
  { File(<<"a",".","p","y">>, <<"s","r","c","/","a",".","p","y">>, <<".","p","y">>),
    File(<<"t","e","s","t","_","b","a","r",".","p","y">>, <<"t","e","s","t","s","/","t","e","s","t","_","b","a","r",".","p","y">>, <<".","p","y">>) }

\* listings the repository can also have, beside the arrays over FilePool
ExampleListings ==
  { << File(<<"a",".","p","y">>, <<"s","r","c","/","a",".","p","y">>, <<".","p","y">>),
       File(<<"t","e","s","t","_","b","a","r",".","p","y">>, <<"t","e","s","t","s","/","t","e","s","t","_","b","a","r",".","p","y">>, <<".","p","y">>) >> }

\* file records that lack a field: the relative_path, the name, the extension
MalformedFiles ==
  { File(<<"c","a","l","c",".","p","y">>, undefined, <<".","p","y">>),
    File(undefined, <<"s","r","c","/","c","a","l","c",".","p","y">>, <<".","p","y">>),
    File(<<"c","a","l","c",".","p","y">>, <<"s","r","c","/","c","a","l","c",".","p","y">>, undefined) }

\* the records that the listings with a malformed record are made of
MalformedPool ==
  MalformedFiles \cup { File(<<"c","a","l","c",".","p","y">>, <<"s","r","c","/","c","a","l","c",".","p","y">>, <<".","p","y">>),
                        File(<<"T","e","s","t","_","c","a","l","c",".","p","y">>, <<"t","e","s","t","s","/","T","e","s","t","_","c","a","l","c",".","p","y">>, <<".","p","y">>) }

\* analyses of which one lacks its file_path (null is the empty string)
MalformedAnalyses ==
  << [id |-> 9, file_path |-> << >>],
     [id |-> 7, file_path |-> <<"d","o","c","s","/","g","u","i","d","e",".","m","d">>] >>

\* the listing of the repository whose tests are generated: two source files
\* in two languages
WorkflowListing ==
  << File(<<"c","a","l","c",".","p","y">>, <<"s","r","c","/","c","a","l","c",".","p","y">>, <<".","p","y">>),
     File(<<"a","p","p",".","j","s">>, <<"w","e","b","/","a","p","p",".","j","s">>, <<".","j","s">>) >>

\* source files of two names, two of the same name, a test file whose path
\* holds both names, and a test file beside one of the two of the same name
OrderPool ==
  { File(<<"c","a","l","c",".","p","y">>, <<"s","r","c","/","c","a","l","c",".","p","y">>, <<".","p","y">>),
    File(<<"c","a","l","c",".","p","y">>, <<"l","i","b","/","c","a","l","c",".","p","y">>, <<".","p","y">>),
    File(<<"u","t","i","l",".","p","y">>, <<"s","r","c","/","u","t","i","l",".","p","y">>, <<".","p","y">>),
    File(<<"t","e","s","t","_","c","a","l","c","_","u","t","i","l",".","p","y">>, <<"t","e","s","t","s","/","t","e","s","t","_","c","a","l","c","_","u","t","i","l",".","p","y">>, <<".","p","y">>),
    File(<<"t","e","s","t","_","c","a","l","c",".","j","s">>, <<"s","r","c","/","t","e","s","t","_","c","a","l","c",".","j","s">>, <<".","j","s">>) }

AllFiles ==
  FilePool \cup ExampleFiles \cup MalformedFiles \cup OrderPool
    \cup {WorkflowListing[i] : i \in 1..Len(WorkflowListing)}

\* the analyses of the repository: one of a source file, one of a file that
\* is no source file
Analyses ==
  << [id |-> 9, file_path |-> <<"S","R","C","/","C","a","l","c",".","p","y">>],
     [id |-> 7, file_path |-> <<"d","o","c","s","/","g","u","i","d","e",".","m","d">>] >>

AnalysisPool ==
  {Analyses[i] : i \in 1..Len(Analyses)}
    \cup {MalformedAnalyses[i] : i \in 1..Len(MalformedAnalyses)}

TestPool ==
  { [id |-> 1, analysis_id |-> 9, test_file_path |-> << >>],
    [id |-> 2, analysis_id |-> 0, test_file_path |-> <<"s","r","c","/","u","t","i","l","/","t","e","s","t","_","c","a","l","c",".","p","y">>],
    [id |-> 3, analysis_id |-> 7, test_file_path |-> <<"s","r","c","/","u","t","i","l","_","t","e","s","t",".","p","y">>] }

\* the arrays of at most n elements of S
ArraysOf(S, n) == UNION {[1..k -> S] : k \in 0..n}

(***************************************************************************)
(* RepositoryDetails page.  The string predicates are evaluated once per   *)
(* record of the pools (the ...Memo tables) and looked up afterwards.      *)
(***************************************************************************)
\* testPatterns of isTestFile, in the order and with the repetitions of
\* the source
testPatterns ==
  <<<<"t","e","s","t","_">>, <<"_","t","e","s","t">>, <<".","t","e","s","t",".">>, <<".","s","p","e","c",".">>, <<"t","e","s","t","s","/">>, <<"t","e","s","t","/">>, <<"_","_","t","e","s","t","_","_">>,
    <<"t","e","s","t","/">>, <<"s","p","e","c","/">>, <<"t","e","s","t","s","/">>, <<"t","e","s","t","/">>, <<"_","_","t","e","s","t","s","_","_">>>>

\* isTestFile with the pattern '_test' left out of the list
isTestFile_withoutSuffixPattern(filePath, fileName) ==
  LET lowerPath == toLowerCase(filePath)
      lowerName == toLowerCase(fileName)
  IN  \E k \in (1..Len(testPatterns)) \ {2} :
        includes(lowerPath, testPatterns[k]) \/ includes(lowerName, testPatterns[k])

isTestFile(filePath, fileName) ==
  LET lowerPath == toLowerCase(filePath)
      lowerName == toLowerCase(fileName)
  IN  \E k \in 1..Len(testPatterns) :
        includes(lowerPath, testPatterns[k]) \/ includes(lowerName, testPatterns[k])

isTestFileMemo == [f \in AllFiles |-> isTestFile(f.relative_path, f.name)]

\* the extension allow-list of allCodeFiles
codeExtensions ==
  <<<<".","p","y">>, <<".","j","s">>, <<".","t","s">>, <<".","j","s","x">>, <<".","t","s","x">>, <<".","j","a","v","a">>, <<".","c","p","p">>, <<".","c">>, <<".","h">>,
    <<".","c","s">>, <<".","g","o">>, <<".","r","s">>, <<".","r","b">>, <<".","p","h","p">>>>

\* the callback of files.filter
isCodeFile(f) ==
  LET ext == IF f.extension = undefined THEN << >> ELSE toLowerCase(f.extension)
  IN  \E k \in 1..Len(codeExtensions) : codeExtensions[k] = ext

\* isTestFile(f.relative_path, f.name) raises a TypeError: toLowerCase is
\* called on a relative_path or a name that is undefined
isTestFileThrows(f) == f.relative_path = undefined \/ f.name = undefined

isCodeFileMemo == [f \in AllFiles |-> isCodeFile(f)]

InAllowList(f) == isCodeFileMemo[f]

\* the filters that compute sourceFiles and testFiles raise: a file of
\* allCodeFiles makes isTestFile raise
renderThrows(fs) == \E i \in 1..Len(fs) : InAllowList(fs[i]) /\ isTestFileThrows(fs[i])

allCodeFilesOf(fs) == SelectSeq(fs, InAllowList)

IsSource(f) == ~isTestFileMemo[f]

IsTest(f) == isTestFileMemo[f]

sourceFilesOf(fs) == SelectSeq(allCodeFilesOf(fs), IsSource)

testFilesOf(fs) == SelectSeq(allCodeFilesOf(fs), IsTest)

\* potentialSourceName: the name a test file's name points at
potentialSourceNameOf(testName) ==
  replaceFirst(
    replaceFirst(
      replaceFirst(
        replaceFirst(
          replaceFirst(
            replacePrefix(testName, <<"t","e","s","t","_">>, << >>),
            <<"_","t","e","s","t",".">>, <<".">>),
          <<".","t","e","s","t",".">>, <<".">>),
        <<".","s","p","e","c",".">>, <<".">>),
      <<"e","2","e",".">>, <<".">>),
    <<".","e","2","e",".">>, <<".">>)

\* the alternatives of /^(test_|_test|\.test|\.spec|e2e|\.e2e)/
testMarkers == <<<<"t","e","s","t","_">>, <<"_","t","e","s","t">>, <<".","t","e","s","t">>, <<".","s","p","e","c">>, <<"e","2","e">>, <<".","e","2","e">>>>

\* the extensions of /\.(py|js|ts|java)$/
nameExtensions == <<<<"p","y">>, <<"j","s">>, <<"t","s">>, <<"j","a","v","a">>>>

\* the callback of sourceFiles.find in matchTestFileToSource
matchesSource(testFile, sourceFile) ==
  LET testName == toLowerCase(testFile.name)
      testPath == toLowerCase(testFile.relative_path)
      potentialSourceName == potentialSourceNameOf(testName)
      sourceName == toLowerCase(sourceFile.name)
      sourcePath == toLowerCase(sourceFile.relative_path)
      testDir == substring(testPath, 0, lastIndexOf(testPath, <<"/">>))
      sourceDir == substring(sourcePath, 0, lastIndexOf(sourcePath, <<"/">>))
      baseTestName == replaceExtension(replacePrefixAlt(testName, testMarkers), nameExtensions)
      baseSourceName == replaceExtension(sourceName, nameExtensions)
  IN  \/ sourceName = potentialSourceName
      \/ /\ testDir = sourceDir \/ includes(testDir, <<"t","e","s","t">>) \/ includes(testDir, <<"t","e","s","t","s">>)
         /\ baseTestName = baseSourceName
      \/ includes(testPath, replaceExtension(sourceName, nameExtensions))
      \/ includes(sourcePath,
                  replaceExtension(replacePrefixAlt(testName, testMarkers), nameExtensions))

matchesSourceMemo == [t \in AllFiles |-> [s \in AllFiles |-> matchesSource(t, s)]]

\* matchingSource of matchTestFileToSource, as an index into sourceFiles
\* (0 for undefined)
matchingSourceOf(testFile, srcs) ==
  findIndex([i \in 1..Len(srcs) |-> matchesSourceMemo[testFile][srcs[i]]])

\* matchTestFileToSource returning the test file's own path on a match
matchTestFileToSource_testPath(testFile, srcs) ==
  IF matchingSourceOf(testFile, srcs) = 0 THEN << >> ELSE testFile.relative_path

\* matchTestFileToSource: the relative_path of the first source file that
\* matches, or null; null is the empty string here, which the caller's
\* "if (matchedPath)" cannot tell from null
matchTestFileToSource(testFile, srcs) ==
  LET i == matchingSourceOf(testFile, srcs)
  IN  IF i = 0 THEN << >> ELSE srcs[i].relative_path

\* the callback of sourceFiles.find in the analysis_id branch
matchesAnalysis(analysisPath, f) ==
  LET filePath == toLowerCase(f.relative_path)
      fileName == toLowerCase(f.name)
  IN  \/ includes(analysisPath, fileName)
      \/ filePath = analysisPath
      \/ includes(analysisPath, filePath)
      \/ includes(filePath, analysisPath)
      \/ fileName = splitPop(analysisPath)
      \/ splitPop(filePath) = splitPop(analysisPath)

matchesAnalysisMemo ==
  [a \in AnalysisPool |-> [f \in AllFiles |-> matchesAnalysis(toLowerCase(a.file_path), f)]]

\* the extensions of /\.(py|js|ts|jsx|tsx|java)$/
fallbackExtensions == <<<<"p","y">>, <<"j","s">>, <<"t","s">>, <<"j","s","x">>, <<"t","s","x">>, <<"j","a","v","a">>>>

\* the callback of sourceFiles.find in the test_file_path branch
matchesTestFilePath(testFilePath, f) ==
  LET testFileName == splitPop(testFilePath)
      potentialSourceName == potentialSourceNameOf(testFileName)
      fileName == toLowerCase(f.name)
      filePath == toLowerCase(f.relative_path)
  IN  \/ fileName = potentialSourceName
      \/ includes(testFilePath, fileName)
      \/ includes(filePath, replaceExtension(potentialSourceName, fallbackExtensions))

matchesTestFilePathMemo ==
  [t \in TestPool |->
     [f \in AllFiles |-> matchesTestFilePath(toLowerCase(t.test_file_path), f)]]

\* analyses.find(a => a.id === test.analysis_id), as an index
findAnalysis(test, ans) ==
  findIndex([i \in 1..Len(ans) |-> ans[i].id = test.analysis_id])

\* The body of tests.forEach for one generated-test record: the index in
\* sourceFiles of matchedSourceFile (0 for null) and the branch that set it.
matchGeneratedTest(test, ans, srcs) ==
  LET a == IF test.analysis_id # 0 THEN findAnalysis(test, ans) ELSE 0
      byAnalysis ==
        IF a # 0 /\ ans[a].file_path # << >>
        THEN findIndex([i \in 1..Len(srcs) |-> matchesAnalysisMemo[ans[a]][srcs[i]]])
        ELSE 0
      byPath == findIndex([i \in 1..Len(srcs) |-> matchesTestFilePathMemo[test][srcs[i]]])
  IN  IF byAnalysis # 0 THEN [via |-> "analysis_id", index |-> byAnalysis]
      ELSE IF test.test_file_path # << >>
           THEN [via |-> "test_file_path", index |-> byPath]
           ELSE [via |-> "none", index |-> 0]

\* sourceFilesWithTests keeping, of the test files, only the last one's match
sourceFilesWithTestsOf_lastTestFileOnly(srcs, tfs, ans, ts) ==
  LET fromFiles == IF tfs = << >> THEN {}
                   ELSE {matchTestFileToSource(tfs[Len(tfs)], srcs)} \ {<< >>}
      fromTests == {srcs[matchGeneratedTest(ts[i], ans, srcs).index].relative_path :
                      i \in {j \in 1..Len(ts) : matchGeneratedTest(ts[j], ans, srcs).index # 0}}
  IN  fromFiles \cup fromTests

\* sourceFilesWithTests after testFiles.forEach and tests.forEach
sourceFilesWithTestsOf(srcs, tfs, ans, ts) ==
  LET fromFiles == {matchTestFileToSource(tfs[i], srcs) : i \in 1..Len(tfs)} \ {<< >>}
      fromTests == {srcs[matchGeneratedTest(ts[i], ans, srcs).index].relative_path :
                      i \in {j \in 1..Len(ts) : matchGeneratedTest(ts[j], ans, srcs).index # 0}}
  IN  fromFiles \cup fromTests

\* totalCoverage without the test for an empty sourceFiles
totalCoverageOf_unguarded(size, length) == [num |-> size * 100, den |-> length]

\* totalCoverage, exactly: (size / length) * 100 as the fraction num/den
totalCoverageOf(size, length) ==
  IF length > 0 THEN [num |-> size * 100, den |-> length]
  ELSE [num |-> 0, den |-> 1]

\* toFixed(1) and Math.round(x * 10), in tenths: x * 10 rounded to the
\* nearest integer, a half rounded up
roundTenths(x) == (2 * 10 * x.num + x.den) \div (2 * x.den)

(***************************************************************************)
(* RepositoryDetails, Overview tab: the coverage shown next to each source *)
(* file of the file list.                                                  *)
(***************************************************************************)
\* the extensions of the list's /\.(py|js|ts|jsx|tsx|java)$/
overviewExtensions == <<<<"p","y">>, <<"j","s">>, <<"t","s">>, <<"j","s","x">>, <<"t","s","x">>, <<"j","a","v","a">>>>

\* sourceBaseName of a listed file
sourceBaseNameOf(file) == replaceExtension(toLowerCase(file.name), overviewExtensions)

\* testBaseName of a test file
testBaseNameOf(testFile) ==
  replaceExtension(
    replaceFirst(
      replaceFirst(
        replaceFirst(
          replacePrefix(toLowerCase(testFile.name), <<"t","e","s","t","_">>, << >>),
          <<"_","t","e","s","t",".">>, <<".">>),
        <<".","t","e","s","t",".">>, <<".">>),
      <<".","s","p","e","c",".">>, <<".">>),
    overviewExtensions)

\* the callback of testFiles.filter: testFile is one of matchingTestFiles
isMatchingTestFile(testFile, file) ==
  \/ testBaseNameOf(testFile) = sourceBaseNameOf(file)
  \/ includes(toLowerCase(testFile.name), sourceBaseNameOf(file))

isMatchingTestFileMemo ==
  [t \in AllFiles |-> [f \in AllFiles |-> isMatchingTestFile(t, f)]]

\* the last line of the callback of tests.filter, for the record's analysis
isFileTestOf(testAnalysis, file) ==
  LET testPath == toLowerCase(testAnalysis.file_path)
  IN  \/ includes(testPath, toLowerCase(file.name))
      \/ includes(testPath, sourceBaseNameOf(file))

isFileTestOfMemo ==
  [a \in AnalysisPool |-> [f \in AllFiles |-> isFileTestOf(a, f)]]

\* fileCoverage of a listed file: 100 if matchingTestFiles or fileTests is
\* not empty, 0 otherwise
fileCoverageOf(file, tfs, ans, ts) ==
  LET matchingTestFiles == {i \in 1..Len(tfs) : isMatchingTestFileMemo[tfs[i]][file]}
      fileTests == {i \in 1..Len(ts) :
                      /\ findAnalysis(ts[i], ans) # 0
                      /\ isFileTestOfMemo[ans[findAnalysis(ts[i], ans)]][file]}
  IN  IF matchingTestFiles # {} \/ fileTests # {} THEN 100 ELSE 0

(***************************************************************************)
(* Repositories list page: the body of loadRepositories for one            *)
(* repository.  The page has its own copy of every helper.                 *)
(***************************************************************************)
\* testPatterns of the page's isTestFile
Repositories_testPatterns ==
  <<<<"t","e","s","t","_">>, <<"_","t","e","s","t">>, <<".","t","e","s","t",".">>, <<".","s","p","e","c",".">>, <<"t","e","s","t","s","/">>, <<"t","e","s","t","/">>, <<"_","_","t","e","s","t","_","_">>,
    <<"t","e","s","t","/">>, <<"s","p","e","c","/">>, <<"t","e","s","t","s","/">>, <<"t","e","s","t","/">>, <<"_","_","t","e","s","t","s","_","_">>>>

\* the page's isTestFile with the pattern '.test.' left out of the list
Repositories_isTestFile_withoutDotTest(filePath, fileName) ==
  LET lowerPath == toLowerCase(filePath)
      lowerName == toLowerCase(fileName)
  IN  \E k \in (1..Len(Repositories_testPatterns)) \ {3} :
        \/ includes(lowerPath, Repositories_testPatterns[k])
        \/ includes(lowerName, Repositories_testPatterns[k])

Repositories_isTestFile(filePath, fileName) ==
  LET lowerPath == toLowerCase(filePath)
      lowerName == toLowerCase(fileName)
  IN  \E k \in 1..Len(Repositories_testPatterns) :
        \/ includes(lowerPath, Repositories_testPatterns[k])
        \/ includes(lowerName, Repositories_testPatterns[k])

\* the extension allow-list of the page's allCodeFiles
Repositories_codeExtensions ==
  <<<<".","p","y">>, <<".","j","s">>, <<".","t","s">>, <<".","j","s","x">>, <<".","t","s","x">>, <<".","j","a","v","a">>, <<".","c","p","p">>, <<".","c">>, <<".","h">>,
    <<".","c","s">>, <<".","g","o">>, <<".","r","s">>, <<".","r","b">>, <<".","p","h","p">>>>

Repositories_isCodeFile(f) ==
  LET ext == IF f.extension = undefined THEN << >> ELSE toLowerCase(f.extension)
  IN  \E k \in 1..Len(Repositories_codeExtensions) : Repositories_codeExtensions[k] = ext

Repositories_isCodeFileMemo == [f \in AllFiles |-> Repositories_isCodeFile(f)]

Repositories_InAllowList(f) == Repositories_isCodeFileMemo[f]

\* the page's filters raise: a file of allCodeFiles has no relative_path or
\* no name for isTestFile to lower-case
Repositories_throws(fs) ==
  \E i \in 1..Len(fs) :
     /\ Repositories_InAllowList(fs[i])
     /\ fs[i].relative_path = undefined \/ fs[i].name = undefined

Repositories_allCodeFilesOf(fs) == SelectSeq(fs, Repositories_InAllowList)

Repositories_isTestFileMemo ==
  [f \in AllFiles |-> Repositories_isTestFile(f.relative_path, f.name)]

Repositories_IsSource(f) == ~Repositories_isTestFileMemo[f]

Repositories_IsTest(f) == Repositories_isTestFileMemo[f]

Repositories_sourceFilesOf(fs) ==
  SelectSeq(Repositories_allCodeFilesOf(fs), Repositories_IsSource)

Repositories_testFilesOf(fs) ==
  SelectSeq(Repositories_allCodeFilesOf(fs), Repositories_IsTest)

\* the page's potentialSourceName without the replacement of '_test.'
Repositories_potentialSourceNameOf_keepsSuffix(testName) ==
  replaceFirst(
    replaceFirst(
      replacePrefix(testName, <<"t","e","s","t","_">>, << >>),
      <<".","t","e","s","t",".">>, <<".">>),
    <<".","s","p","e","c",".">>, <<".">>)

Repositories_potentialSourceNameOf(testName) ==
  replaceFirst(
    replaceFirst(
      replaceFirst(
        replacePrefix(testName, <<"t","e","s","t","_">>, << >>),
        <<"_","t","e","s","t",".">>, <<".">>),
      <<".","t","e","s","t",".">>, <<".">>),
    <<".","s","p","e","c",".">>, <<".">>)

\* the alternatives of /^(test_|_test|\.test|\.spec)/
Repositories_testMarkers == <<<<"t","e","s","t","_">>, <<"_","t","e","s","t">>, <<".","t","e","s","t">>, <<".","s","p","e","c">>>>

\* the extensions of the page's /\.(py|js|ts|java)$/
Repositories_nameExtensions == <<<<"p","y">>, <<"j","s">>, <<"t","s">>, <<"j","a","v","a">>>>

\* the callback of sourceFiles.find in testFiles.forEach
Repositories_matchesSource(testFile, sourceFile) ==
  LET testName == toLowerCase(testFile.name)
      testPath == toLowerCase(testFile.relative_path)
      potentialSourceName == Repositories_potentialSourceNameOf(testName)
      sourceName == toLowerCase(sourceFile.name)
      sourcePath == toLowerCase(sourceFile.relative_path)
      testDir == substring(testPath, 0, lastIndexOf(testPath, <<"/">>))
      sourceDir == substring(sourcePath, 0, lastIndexOf(sourcePath, <<"/">>))
      baseTestName == replaceExtension(replacePrefixAlt(testName, Repositories_testMarkers),
                                       Repositories_nameExtensions)
      baseSourceName == replaceExtension(sourceName, Repositories_nameExtensions)
  IN  \/ sourceName = potentialSourceName
      \/ /\ testDir = sourceDir \/ includes(testDir, <<"t","e","s","t">>) \/ includes(testDir, <<"t","e","s","t","s">>)
         /\ baseTestName = baseSourceName

Repositories_matchesSourceMemo ==
  [t \in AllFiles |-> [s \in AllFiles |-> Repositories_matchesSource(t, s)]]

\* matchingSource of testFiles.forEach, as an index (0 for undefined)
Repositories_matchingSource(testFile, srcs) ==
  findIndex([i \in 1..Len(srcs) |-> Repositories_matchesSourceMemo[testFile][srcs[i]]])

\* the callback of sourceFiles.find in tests.forEach
Repositories_matchesAnalysis(analysisPath, f) ==
  LET filePath == toLowerCase(f.relative_path)
      fileName == toLowerCase(f.name)
  IN  includes(analysisPath, fileName) \/ filePath = analysisPath

Repositories_matchesAnalysisMemo ==
  [a \in AnalysisPool |->
     [f \in AllFiles |-> Repositories_matchesAnalysis(toLowerCase(a.file_path), f)]]

\* sourceFile of tests.forEach for one record, as an index (0 when the
\* analysis is not found, has no file_path, or no source file matches)
Repositories_matchGeneratedTest(test, ans, srcs) ==
  LET a == findAnalysis(test, ans)
  IN  IF a # 0 /\ ans[a].file_path # << >>
      THEN findIndex([i \in 1..Len(srcs) |->
                        Repositories_matchesAnalysisMemo[ans[a]][srcs[i]]])
      ELSE 0

\* the page's sourceFilesWithTests after testFiles.forEach and tests.forEach
Repositories_sourceFilesWithTestsOf(srcs, tfs, ans, ts) ==
  LET fromFiles == {srcs[Repositories_matchingSource(tfs[i], srcs)].relative_path :
                      i \in {j \in 1..Len(tfs) : Repositories_matchingSource(tfs[j], srcs) # 0}}
      fromTests == {srcs[Repositories_matchGeneratedTest(ts[i], ans, srcs)].relative_path :
                      i \in {j \in 1..Len(ts) :
                               Repositories_matchGeneratedTest(ts[j], ans, srcs) # 0}}
  IN  fromFiles \cup fromTests

\* the page's totalCoverage
Repositories_totalCoverageOf(size, length) ==
  IF length > 0 THEN [num |-> size * 100, den |-> length]
  ELSE [num |-> 0, den |-> 1]

(***************************************************************************)
(* State.                                                                  *)
(***************************************************************************)
VARIABLES
  repoFiles,       \* backend: GET /repositories/{id}/files
  repoAnalyses,    \* backend: details.analyses
  repoTests,       \* backend: details.tests
  repositories,    \* backend: the ids that GET /repositories answers
  failing,         \* backend: the requests of the Repositories page that fail
  loading,         \* RepositoryDetails: true until the details have arrived
  loadingFiles,    \* RepositoryDetails: true until the file listing has arrived
  files,           \* RepositoryDetails: the files state
  data,            \* RepositoryDetails: the data state (analyses, tests)
  sourceFiles,     \* RepositoryDetails: the last render's sourceFiles
  testFiles,       \* RepositoryDetails: the last render's testFiles
  sourceFilesWithTests,  \* RepositoryDetails: the last render's covered set
  totalCoverage,   \* RepositoryDetails: the last render's totalCoverage
  testMatches,     \* RepositoryDetails: per record, the outcome of tests.forEach
  fileCoverage,    \* RepositoryDetails: per source file, the file list's fileCoverage
  renderError,     \* RepositoryDetails: a render has raised an error
  listLoading,     \* Repositories: the loading state
  listSourceFiles, \* Repositories: sourceFiles of the last loadRepositories
  listTestFiles,   \* Repositories: testFiles of the last loadRepositories
  listSourceFilesWithTests,  \* Repositories: its covered set
  listTestMatches, \* Repositories: per record, the outcome of tests.forEach
  repoStats,       \* Repositories: the repoStats state, coverage in tenths
  repos,           \* Repositories: the repos state
  selectedFile,    \* RepositoryDetails: the path of the file in the file viewer
  fileContent,     \* RepositoryDetails: the content shown by the file viewer
  selectedTestType,  \* RepositoryDetails: the test type of the last Generate click
  generatingTest,  \* RepositoryDetails: the path a test is being generated for
  previewTest,     \* RepositoryDetails: the generated test under preview
  isRefiningTest,  \* RepositoryDetails: a refinement is running
  analyzing,       \* RepositoryDetails: a repository review is running
  toast,           \* RepositoryDetails: the toast state
  pending,         \* the handlers that wait for the answer to a request
  budget,          \* the number of requests that may still be sent
  tests_loading,   \* Tests: the loading state
  tests_result,    \* Tests: the result state
  tests_toast,     \* Tests: the toast state
  predictions_loading,  \* Predictions: the loading state
  predictions_result,   \* Predictions: the result state
  console,         \* the last console.error of a handler
  banner_props,    \* AIWarningBanner: the props onDismiss (given or not) and compact
  banner_aiStatus, \* AIWarningBanner: the aiStatus state
  banner_loading,  \* AIWarningBanner: the loading state
  banner_dismissed, \* AIWarningBanner: the dismissed state
  deleteModal, \* Repositories: the deleteModal state
  listToast,  \* Repositories: the toast state
  toast_isVisible, \* Toast: the isVisible prop
  toast_duration, \* Toast: the duration prop, in seconds
  toast_timer, \* Toast: the timer of the effect, with the seconds it has left
  toast_age,  \* Toast: the seconds for which the toast has been visible
  reviewPage,  \* Review: code, loading, result, error, selectedRepoId, reviewMode
  githubForm,  \* Repositories: githubData, validating, validationResult
  issuesPage,  \* Issues: issues, loading, filters
  mounted  \* App: the page that the router has mounted

vars == <<repoFiles, repoAnalyses, repoTests, repositories, failing, repos, loading, loadingFiles, files, data, sourceFiles,
          testFiles, sourceFilesWithTests, totalCoverage, testMatches, fileCoverage,
          renderError,
          listLoading, listSourceFiles, listTestFiles, listSourceFilesWithTests,
          listTestMatches, repoStats,
          selectedFile, fileContent, selectedTestType, generatingTest, previewTest,
          isRefiningTest, analyzing, toast, pending, budget,
          tests_loading, tests_result, tests_toast,
          predictions_loading, predictions_result, console,
          banner_props, banner_aiStatus, banner_loading, banner_dismissed,
          deleteModal,
          listToast, toast_isVisible,
          toast_duration,
          toast_timer,
          toast_age, reviewPage, githubForm, issuesPage, mounted>>

backend == <<repoFiles, repoAnalyses, repoTests, repositories, failing>>

detailsPage == <<loading, loadingFiles, files, data, sourceFiles, testFiles, sourceFilesWithTests,
                 totalCoverage, testMatches, fileCoverage, renderError>>

listPage == <<listLoading, listSourceFiles, listTestFiles, listSourceFilesWithTests,
              listTestMatches, repoStats, repos>>

\* the state of the handlers of RepositoryDetails, of the Tests page and of the
\* Predictions page, with the requests they have sent
handlers == <<selectedFile, fileContent, selectedTestType, generatingTest, previewTest,
              isRefiningTest, analyzing, toast, pending, budget,
              tests_loading, tests_result, tests_toast,
              predictions_loading, predictions_result, console>>

\* null, of a state that holds an object
null == [null |-> TRUE]

\* the state of AIWarningBanner
banner == <<banner_props, banner_aiStatus, banner_loading, banner_dismissed>>

\* Repositories: the state of its modals and of its toast
listModals == <<deleteModal, listToast>>

\* the state of a mounted Toast, with the time it has been visible
toastState == <<toast_isVisible, toast_duration, toast_timer, toast_age>>

\* the state of the components and pages that the pages above do not hold
components == <<banner, listModals, toastState, reviewPage, githubForm, issuesPage, mounted>>

\* the components but one
exceptBanner == <<listModals, toastState, reviewPage, githubForm, issuesPage, mounted>>

exceptListModals == <<banner, toastState, reviewPage, githubForm, issuesPage, mounted>>

exceptToast == <<banner, listModals, reviewPage, githubForm, issuesPage, mounted>>

exceptReview == <<banner, listModals, toastState, githubForm, issuesPage, mounted>>

exceptIssues == <<banner, listModals, toastState, reviewPage, githubForm, mounted>>

exceptGithubForm == <<banner, listModals, toastState, reviewPage, issuesPage, mounted>>

\* the initial values of the useState calls of AIWarningBanner
BannerAtRest ==
  /\ banner_props = [onDismiss |-> FALSE, compact |-> FALSE]
  /\ banner_aiStatus = null
  /\ banner_loading = TRUE
  /\ banner_dismissed = FALSE

\* Repositories without a modal and without a toast
ListModalsAtRest ==
  /\ deleteModal = null
  /\ listToast = null

\* no Toast is mounted
ToastAtRest ==
  /\ toast_isVisible = FALSE
  /\ toast_duration = 0
  /\ toast_timer = null
  /\ toast_age = 0

\* the code that the Review page starts with
EXAMPLE_CODE == <<"x"," ","="," ","1">>

\* the initial values of the useState calls of Review; the null of error is
\* the empty message, that of selectedRepoId is 0
ReviewAtRest ==
  reviewPage = [code |-> EXAMPLE_CODE, loading |-> FALSE, result |-> null, error |-> "",
                selectedRepoId |-> 0, reviewMode |-> "code"]

\* Repositories: the initial values of githubData, validating and
\* validationResult
GithubFormAtRest ==
  githubForm = [githubData |-> [github_url |-> << >>, name |-> << >>], validating |-> FALSE,
                validationResult |-> null]

\* the initial values of the useState calls of Issues
IssuesAtRest ==
  issuesPage = [issues |-> << >>, loading |-> TRUE,
                filters |-> [severity |-> "", issue_type |-> "", fixed |-> "undefined"]]

\* the components at rest
ComponentsInit ==
  /\ BannerAtRest
  /\ ListModalsAtRest
  /\ ToastAtRest
  /\ ReviewAtRest
  /\ GithubFormAtRest
  /\ IssuesAtRest

\* the handlers at rest: the initial values of the useState calls
HandlersInit ==
  /\ selectedFile = << >>
  /\ fileContent = null
  /\ selectedTestType = "unit"
  /\ generatingTest = << >>
  /\ previewTest = null
  /\ isRefiningTest = FALSE
  /\ analyzing = FALSE
  /\ toast = null
  /\ pending = EmptyBag
  /\ tests_loading = FALSE
  /\ tests_result = null
  /\ tests_toast = null
  /\ predictions_loading = FALSE
  /\ predictions_result = null
  /\ console = ""

\* the repository whose files, analyses and tests are the backend variables
RepoId == 1

\* a second repository, of a source file with its test file and no records
OtherRepository == 2

OtherListing ==
  << File(<<"c","a","l","c",".","p","y">>, <<"s","r","c","/","c","a","l","c",".","p","y">>, <<".","p","y">>),
     File(<<"T","e","s","t","_","c","a","l","c",".","p","y">>, <<"t","e","s","t","s","/","T","e","s","t","_","c","a","l","c",".","p","y">>, <<".","p","y">>) >>

\* details.data.statistics of a repository
statistics(r) == [total_issues |-> IF r = RepoId THEN 4 ELSE 7]

Request(request, id) == [request |-> request, id |-> id]

\* the requests of loadRepositories
Requests ==
  {Request("repositories", 0)}
    \cup {Request(name, r) : name \in {"details", "files"}, r \in {RepoId, OtherRepository}}

\* the backend answers every request of the Repositories page for its one
\* repository
ListBackendInit ==
  /\ repositories = <<RepoId>>
  /\ failing = {}
  /\ repos = << >>

\* The pages once mounted: the mount effects have started the loaders
\* (setLoading(true), setLoadingFiles(true)) and no response has arrived.
Init ==
  /\ repoFiles \in ArraysOf(FilePool, MaxFiles) \cup ExampleListings
  /\ repoAnalyses = Analyses
  /\ repoTests \in ArraysOf(TestPool, MaxTests)
  /\ loading = TRUE
  /\ loadingFiles = TRUE
  /\ files = << >>
  /\ data = [loaded |-> FALSE, analyses |-> << >>, tests |-> << >>]
  /\ sourceFiles = << >>
  /\ testFiles = << >>
  /\ sourceFilesWithTests = {}
  /\ totalCoverage = [num |-> 0, den |-> 1]
  /\ testMatches = << >>
  /\ fileCoverage = << >>
  /\ renderError = FALSE
  /\ listLoading = TRUE
  /\ listSourceFiles = << >>
  /\ listTestFiles = << >>
  /\ listSourceFilesWithTests = {}
  /\ listTestMatches = << >>
  /\ repoStats = << >>
  /\ ListBackendInit
  /\ HandlersInit
  /\ ComponentsInit
  /\ mounted = "every page"
  /\ budget = 0

(***************************************************************************)
(* RepositoryDetails: the render that follows a change of files or data.   *)
(* While loading, or without data, the component returns before the        *)
(* coverage is computed; sourceFiles and testFiles are computed before     *)
(* that return.                                                            *)
(***************************************************************************)
Render(fs, d, isLoading) ==
  LET srcs == sourceFilesOf(fs)
      tfs == testFilesOf(fs)
      covered == sourceFilesWithTestsOf(srcs, tfs, d.analyses, d.tests)
  IN  IF renderError \/ renderThrows(fs)
      THEN /\ renderError' = TRUE
           /\ UNCHANGED <<sourceFiles, testFiles, sourceFilesWithTests, totalCoverage,
                          testMatches, fileCoverage>>
      ELSE /\ renderError' = FALSE
           /\ sourceFiles' = srcs
           /\ testFiles' = tfs
           /\ IF isLoading \/ ~d.loaded
              THEN UNCHANGED <<sourceFilesWithTests, totalCoverage, testMatches, fileCoverage>>
              ELSE /\ sourceFilesWithTests' = covered
                   /\ totalCoverage' = totalCoverageOf(Cardinality(covered), Len(srcs))
                   /\ testMatches' = [i \in 1..Len(d.tests) |->
                                        matchGeneratedTest(d.tests[i], d.analyses, srcs)]
                   /\ fileCoverage' = [i \in 1..Len(srcs) |->
                                         fileCoverageOf(srcs[i], tfs, d.analyses, d.tests)]

\* loadRepositoryDetails: the details arrive
LoadRepositoryDetails ==
  /\ loading
  /\ loading' = FALSE
  /\ data' = [loaded |-> TRUE, analyses |-> repoAnalyses, tests |-> repoTests]
  /\ UNCHANGED <<loadingFiles, files>>
  /\ Render(files, data', FALSE)
  /\ UNCHANGED <<backend, components, listPage, handlers>>

\* loadRepositoryFiles: the file listing arrives
LoadRepositoryFiles ==
  /\ loadingFiles
  /\ loadingFiles' = FALSE
  /\ files' = repoFiles
  /\ UNCHANGED <<loading, data>>
  /\ Render(files', data, loading)
  /\ UNCHANGED <<backend, components, listPage, handlers>>

(***************************************************************************)
(* Repositories: loadRepositories.  The requests of failing fail, the      *)
(* others are answered.                                                    *)
(***************************************************************************)
Repositories_filesOf_unchecked(r) == IF r = RepoId THEN repoFiles ELSE OtherListing

\* files of a repository: the listing, or [] when the request has failed
Repositories_filesOf(r) ==
  IF Request("files", r) \in failing THEN << >>
  ELSE IF r = RepoId THEN repoFiles ELSE OtherListing

Repositories_testsOf(r) == IF r = RepoId THEN repoTests ELSE << >>

\* the iteration of a repository raises an error that its catch takes
Repositories_fails(r) ==
  Request("details", r) \in failing \/ Repositories_throws(Repositories_filesOf(r))

\* stats[repo.id]
Repositories_statsOf(r) ==
  LET fs == Repositories_filesOf(r)
      srcs == Repositories_sourceFilesOf(fs)
      tfs == Repositories_testFilesOf(fs)
      covered == Repositories_sourceFilesWithTestsOf(srcs, tfs, repoAnalyses,
                                                     Repositories_testsOf(r))
      coverage == Repositories_totalCoverageOf(Cardinality(covered), Len(srcs))
  IN  IF Repositories_fails(r) THEN [issues |-> 0, coverage |-> 0]
      ELSE [issues |-> statistics(r).total_issues, coverage |-> roundTenths(coverage)]

\* loadRepositories from the answer of getRepositories to its finally
Repositories_loaded ==
  LET fs == Repositories_filesOf(RepoId)
      srcs == Repositories_sourceFilesOf(fs)
      tfs == Repositories_testFilesOf(fs)
      covered == Repositories_sourceFilesWithTestsOf(srcs, tfs, repoAnalyses, repoTests)
  IN  /\ IF Request("repositories", 0) \in failing
         THEN UNCHANGED <<repos, repoStats, listSourceFiles, listTestFiles,
                          listSourceFilesWithTests, listTestMatches>>
         ELSE /\ repos' = repositories
              /\ repoStats' = [r \in Elements(repositories) |-> Repositories_statsOf(r)]
              /\ IF RepoId \in Elements(repositories) /\ ~Repositories_fails(RepoId)
                 THEN /\ listSourceFiles' = srcs
                      /\ listTestFiles' = tfs
                      /\ listSourceFilesWithTests' = covered
                      /\ listTestMatches' =
                           [i \in 1..Len(repoTests) |->
                              Repositories_matchGeneratedTest(repoTests[i], repoAnalyses, srcs)]
                 ELSE UNCHANGED <<listSourceFiles, listTestFiles, listSourceFilesWithTests,
                                  listTestMatches>>
      /\ listLoading' = FALSE

\* loadRepositories, called by the mount effect
LoadRepositories ==
  /\ listLoading
  /\ Repositories_loaded
  /\ UNCHANGED <<backend, components, detailsPage, handlers>>

Next ==
  \/ LoadRepositoryDetails
  \/ LoadRepositoryFiles
  \/ LoadRepositories

Spec == Init /\ [][Next]_vars

(***************************************************************************)
(* The same pages on a repository whose listing may hold records that lack *)
(* a field.                                                                *)
(***************************************************************************)
MalformedInit ==
  /\ repoFiles \in ArraysOf(MalformedPool, MaxFiles)
  /\ repoAnalyses \in {Analyses, MalformedAnalyses}
  /\ repoTests \in ArraysOf(TestPool, MaxTests)
  /\ loading = TRUE
  /\ loadingFiles = TRUE
  /\ files = << >>
  /\ data = [loaded |-> FALSE, analyses |-> << >>, tests |-> << >>]
  /\ sourceFiles = << >>
  /\ testFiles = << >>
  /\ sourceFilesWithTests = {}
  /\ totalCoverage = [num |-> 0, den |-> 1]
  /\ testMatches = << >>
  /\ fileCoverage = << >>
  /\ renderError = FALSE
  /\ listLoading = TRUE
  /\ listSourceFiles = << >>
  /\ listTestFiles = << >>
  /\ listSourceFilesWithTests = {}
  /\ listTestMatches = << >>
  /\ repoStats = << >>
  /\ ListBackendInit
  /\ HandlersInit
  /\ ComponentsInit
  /\ mounted = "every page"
  /\ budget = 0

MalformedSpec == MalformedInit /\ [][Next]_vars

(***************************************************************************)
(* The Repositories page on a backend that lists up to two repositories    *)
(* and fails any of the requests.                                          *)
(***************************************************************************)
StatsPool ==
  { File(<<"c","a","l","c",".","p","y">>, <<"s","r","c","/","c","a","l","c",".","p","y">>, <<".","p","y">>),
    File(<<"T","e","s","t","_","c","a","l","c",".","p","y">>, <<"t","e","s","t","s","/","T","e","s","t","_","c","a","l","c",".","p","y">>, <<".","p","y">>) }

RepositoryLists ==
  { << >>, <<RepoId>>, <<RepoId, OtherRepository>>, <<OtherRepository, RepoId>> }

StatsInit ==
  /\ repoFiles \in ArraysOf(StatsPool, MaxFiles)
  /\ repoAnalyses = Analyses
  /\ repoTests = << >>
  /\ repositories \in RepositoryLists
  /\ failing \in SUBSET Requests
  /\ repos = << >>
  /\ loading = TRUE
  /\ loadingFiles = TRUE
  /\ files = << >>
  /\ data = [loaded |-> FALSE, analyses |-> << >>, tests |-> << >>]
  /\ sourceFiles = << >>
  /\ testFiles = << >>
  /\ sourceFilesWithTests = {}
  /\ totalCoverage = [num |-> 0, den |-> 1]
  /\ testMatches = << >>
  /\ fileCoverage = << >>
  /\ renderError = FALSE
  /\ listLoading = TRUE
  /\ listSourceFiles = << >>
  /\ listTestFiles = << >>
  /\ listSourceFilesWithTests = {}
  /\ listTestMatches = << >>
  /\ repoStats = << >>
  /\ HandlersInit
  /\ ComponentsInit
  /\ mounted = "every page"
  /\ budget = 0

StatsNext == LoadRepositories

StatsSpec == StatsInit /\ [][StatsNext]_vars

(***************************************************************************)
(* RepositoryDetails: the handlers of the test preview.  A handler that    *)
(* awaits the answer to a request is an element of pending, with the       *)
(* values its closure captured when it was called; the answer, or the      *)
(* failure, of the request resumes it; requests counts the requests the    *)
(* call has sent.  The pages stay mounted.                                 *)
(***************************************************************************)
\* the number of requests that the handlers of a run may send
MaxRequests == 2

\* the same, for the runs of the preview's handlers alone
MaxPreviewRequests == 3

TestTypes == {"unit", "e2e"}

\* coverage_estimate of the answer to a generate request
coverageEstimateOf(request) == IF "instructions" \in DOMAIN request.code THEN 90 ELSE 80

\* the instructions typed into the preview's refinement box
RefinementInstructions == <<"a","d","d"," ","e","d","g","e"," ","c","a","s","e","s">>

\* the content of the file at a path, as GET .../file-content answers it
contentOf(filePath) == [content_of |-> filePath]

\* the prompt of a refinement: the code followed by the instructions
refinedCodeOf(codeToTest, refinementInstructions) ==
  [code |-> codeToTest, instructions |-> refinementInstructions]

\* test_code of the answer to a generate request
testCodeOf(request) == [tests_of |-> request.code, test_type |-> request.test_type]

getFileLanguage(extension) ==
  LET ext == toLowerCase(extension)
  IN  IF ext = <<".","p","y">> THEN "python"
      ELSE IF ext \in {<<".","j","s">>, <<".","j","s","x">>, <<".","m","j","s">>, <<".","c","j","s">>} THEN "javascript"
      ELSE IF ext \in {<<".","t","s">>, <<".","t","s","x">>} THEN "typescript"
      ELSE IF ext = <<".","j","a","v","a">> THEN "java"
      ELSE "python"

\* a request to POST /api/v1/tests/generate; a field that is not sent is null:
\* 0 for repository_id, the empty string for file_path
generateTests(code, language, test_type, repository_id, file_path) ==
  [url |-> "/api/v1/tests/generate", code |-> code, language |-> language,
   test_type |-> test_type, repository_id |-> repository_id, file_path |-> file_path]

Toast(type, message) == [type |-> type, message |-> message]

Await(op) == pending (+) SetToBag({op})

Resume(op) == pending (-) SetToBag({op})

PendingOf(handler) == {op \in BagToSet(pending) : op.handler = handler}

\* the page shows its tabs: neither the loading screen nor the error screen
PageShown == ~loading /\ data.loaded /\ ~renderError

\* the modals, which cover the page under them; the preview is the upper one
previewOpen == previewTest # null

viewerOpen == selectedFile # << >>

\* what the page's buttons need: the page, and no modal over it
PageClickable == PageShown /\ ~previewOpen /\ ~viewerOpen

SourceFilesShown == {sourceFiles[i] : i \in 1..Len(sourceFiles)}

tools == <<tests_loading, tests_result, tests_toast, predictions_loading,
           predictions_result, console>>

\* loadFileContent, called by a click on a file of the Overview list
LoadFileContent ==
  \E file \in SourceFilesShown, ok \in BOOLEAN :
    /\ PageClickable
    /\ IF ok
       THEN /\ fileContent' = contentOf(file.relative_path)
            /\ selectedFile' = file.relative_path
            /\ UNCHANGED toast
       ELSE /\ toast' = Toast("error", "Failed to load file content")
            /\ UNCHANGED <<fileContent, selectedFile>>
    /\ UNCHANGED budget
    /\ UNCHANGED <<backend, components, detailsPage, listPage, tools, selectedTestType, generatingTest,
                   previewTest, isRefiningTest, analyzing, pending>>

\* the file viewer's onClose
CloseFileViewer ==
  /\ PageShown /\ viewerOpen /\ ~previewOpen
  /\ selectedFile' = << >>
  /\ fileContent' = null
  /\ UNCHANGED budget
  /\ UNCHANGED <<backend, components, detailsPage, listPage, tools, selectedTestType, generatingTest,
                 previewTest, isRefiningTest, analyzing, toast, pending>>

catch_retrying(op) == SetToBag({[op EXCEPT !.requests = @ + 1]})

\* the requests that the catch block of a handler sends and awaits: none
catch(op) == EmptyBag

\* a Generate button of the Test Coverage tab: setSelectedTestType, then
\* handleGenerateTest up to its generate request
HandleGenerateTest ==
  \E file \in SourceFilesShown, testType \in TestTypes, contentLoaded \in BOOLEAN :
    LET filePath == file.relative_path
        language == getFileLanguage(file.extension)
        codeToTest == contentOf(filePath)
        request == generateTests(codeToTest, language, testType, 0, << >>)
    IN  /\ PageClickable
        /\ generatingTest # filePath
        /\ selectedTestType' = testType
        /\ IF contentLoaded
           THEN /\ budget > 0
                /\ budget' = budget - 1
                /\ generatingTest' = filePath
                /\ pending' = Await([handler |-> "handleGenerateTest", requests |-> 1, request |-> request,
                                     filePath |-> filePath, language |-> language,
                                     codeToTest |-> codeToTest, testType |-> testType])
                /\ UNCHANGED toast
           ELSE /\ toast' = Toast("error", "Failed to load file content")
                /\ UNCHANGED <<generatingTest, pending, budget>>
        /\ UNCHANGED <<backend, components, detailsPage, listPage, tools, selectedFile, fileContent,
                       previewTest, isRefiningTest, analyzing>>

\* handleGenerateTest from the answer of its request on
GenerateTestAnswered ==
  \E op \in PendingOf("handleGenerateTest"), ok \in BOOLEAN :
    /\ pending' = Resume(op) (+) (IF ok THEN EmptyBag ELSE catch(op))
    /\ generatingTest' = << >>
    /\ IF ok
       THEN /\ previewTest' = [code |-> testCodeOf(op.request),
                               sourceCode |-> op.codeToTest,
                               fileName |-> IF splitPop(op.filePath) # << >>
                                            THEN splitPop(op.filePath) ELSE op.filePath,
                               language |-> op.language,
                               coverage |-> coverageEstimateOf(op.request),
                               filePath |-> op.filePath,
                               testType |-> op.testType]
            /\ UNCHANGED toast
       ELSE /\ toast' = Toast("error", "Failed to generate test")
            /\ UNCHANGED previewTest
    /\ UNCHANGED budget
    /\ UNCHANGED <<backend, components, detailsPage, listPage, tools, selectedFile, fileContent,
                   selectedTestType, isRefiningTest, analyzing>>

\* the preview's Refine button: handleRefineTest up to its generate request
HandleRefineTest ==
  \E contentLoaded \in BOOLEAN :
    LET codeToTest == IF fileContent # null THEN fileContent
                      ELSE contentOf(previewTest.filePath)
        testTypeToRefine == IF previewTest.testType # "" THEN previewTest.testType
                            ELSE "unit"
        request == generateTests(refinedCodeOf(codeToTest, RefinementInstructions),
                                 previewTest.language, testTypeToRefine, 0, << >>)
    IN  /\ PageShown /\ previewOpen
        /\ ~isRefiningTest
        /\ IF fileContent # null \/ contentLoaded
           THEN /\ budget > 0
                /\ budget' = budget - 1
                /\ isRefiningTest' = TRUE
                /\ pending' = Await([handler |-> "handleRefineTest", requests |-> 1, request |-> request,
                                     previewTest |-> previewTest,
                                     codeToTest |-> codeToTest,
                                     testType |-> testTypeToRefine])
                /\ UNCHANGED toast
           ELSE /\ toast' = Toast("error", "Failed to refine test")
                /\ UNCHANGED <<isRefiningTest, pending, budget>>
        /\ UNCHANGED <<backend, components, detailsPage, listPage, tools, selectedFile, fileContent,
                       selectedTestType, generatingTest, previewTest, analyzing>>

\* handleRefineTest from the answer of its request on
RefineTestAnswered ==
  \E op \in PendingOf("handleRefineTest"), ok \in BOOLEAN :
    /\ pending' = Resume(op) (+) (IF ok THEN EmptyBag ELSE catch(op))
    /\ isRefiningTest' = FALSE
    /\ IF ok
       THEN /\ previewTest' = [op.previewTest EXCEPT !.code = testCodeOf(op.request),
                                                     !.sourceCode = op.codeToTest,
                                                     !.coverage = coverageEstimateOf(op.request),
                                                     !.testType = op.testType]
            /\ toast' = Toast("success", "Test refined successfully!")
       ELSE /\ toast' = Toast("error", "Failed to refine test")
            /\ UNCHANGED previewTest
    /\ UNCHANGED budget
    /\ UNCHANGED <<backend, components, detailsPage, listPage, tools, selectedFile, fileContent,
                   selectedTestType, generatingTest, analyzing>>

\* the test type that handleAcceptTest saves
testTypeToSave(preview, selected) ==
  IF preview.testType # "" THEN preview.testType
  ELSE IF selected # "" THEN selected ELSE "unit"

\* the preview's Accept button: handleAcceptTest up to its save request
HandleAcceptTest ==
  LET request == generateTests(previewTest.code, previewTest.language,
                               testTypeToSave(previewTest, selectedTestType),
                               RepoId, previewTest.filePath)
  IN  /\ PageShown
      /\ previewTest # null
      /\ budget > 0
      /\ budget' = budget - 1
      /\ pending' = Await([handler |-> "handleAcceptTest", requests |-> 1, request |-> request,
                           saved |-> FALSE])
      /\ UNCHANGED <<backend, components, detailsPage, listPage, tools, selectedFile, fileContent,
                     selectedTestType, generatingTest, previewTest, isRefiningTest,
                     analyzing, toast>>

previewAfterSave_closing(preview, ok) == null

\* previewTest after the answer to the save request
previewAfterSave(preview, ok) == IF ok THEN null ELSE preview

\* handleAcceptTest from the answer of its save request up to the delay
AcceptTestAnswered ==
  \E op \in PendingOf("handleAcceptTest"), ok \in BOOLEAN :
    /\ ~op.saved
    /\ previewTest' = previewAfterSave(previewTest, ok)
    /\ IF ok
       THEN /\ toast' = Toast("success", "Test saved successfully!")
            /\ pending' = Await([op EXCEPT !.saved = TRUE]) (-) SetToBag({op})
       ELSE /\ toast' = Toast("error", "Failed to save test")
            /\ pending' = Resume(op) (+) catch(op)
    /\ UNCHANGED budget
    /\ UNCHANGED <<backend, components, detailsPage, listPage, tools, selectedFile, fileContent,
                   selectedTestType, generatingTest, isRefiningTest, analyzing>>

\* handleAcceptTest after the delay: loadRepositoryDetails and
\* loadRepositoryFiles are called, each sets its loading state
AcceptTestReloads ==
  \E op \in PendingOf("handleAcceptTest") :
    /\ op.saved
    /\ pending' = Resume(op)
    /\ loading' = TRUE
    /\ loadingFiles' = TRUE
    /\ UNCHANGED <<files, data, sourceFiles, testFiles, sourceFilesWithTests, totalCoverage,
                   testMatches, fileCoverage, renderError>>
    /\ UNCHANGED budget
    /\ UNCHANGED <<backend, components, listPage, tools, selectedFile, fileContent, selectedTestType,
                   generatingTest, previewTest, isRefiningTest, analyzing, toast>>

\* handleDismissTest: the preview's Dismiss button or its backdrop
HandleDismissTest ==
  /\ PageShown /\ previewOpen
  /\ previewTest' = null
  /\ UNCHANGED budget
  /\ UNCHANGED <<backend, components, detailsPage, listPage, tools, selectedFile, fileContent,
                 selectedTestType, generatingTest, isRefiningTest, analyzing, toast,
                 pending>>

(***************************************************************************)
(* RepositoryDetails: the four buttons that ask for a repository review.   *)
(***************************************************************************)
ReviewTriggers == {"Review Again", "Analyze Repository", "Review Predictions",
                   "Generate Predictions"}

\* the triggers that fetch the details once more to count the issues
CountingTriggers == {"Review Again", "Analyze Repository"}

\* requestData of a trigger; the checkboxes of Review Again are as at the start
requestDataOf(trigger) ==
  [url |-> "/api/v1/review/repository", id |-> RepoId,
   generate_tests |-> trigger \in CountingTriggers,
   predict_regression |-> TRUE]

sendsReview_unguarded(isAnalyzing) == TRUE

\* if (analyzing) return
sendsReview(isAnalyzing) == ~isAnalyzing

\* a trigger's onClick up to its review request
ReviewRequested ==
  \E trigger \in ReviewTriggers :
    /\ PageClickable
    /\ sendsReview(analyzing)
    /\ budget > 0
    /\ budget' = budget - 1
    /\ analyzing' = TRUE
    /\ toast' = Toast("info", IF trigger \in CountingTriggers
                              THEN "Starting repository analysis..."
                              ELSE "Generating predictions...")
    /\ pending' = Await([handler |-> trigger, requests |-> 1, request |-> requestDataOf(trigger),
                         stage |-> "review"])
    /\ UNCHANGED <<backend, components, detailsPage, listPage, tools, selectedFile, fileContent,
                   selectedTestType, generatingTest, previewTest, isRefiningTest>>

PendingReviews(stage) ==
  {op \in BagToSet(pending) : op.handler \in ReviewTriggers /\ op.stage = stage}

\* the onClick from the answer of the review request up to the delay
ReviewAnswered ==
  \E op \in PendingReviews("review"), ok \in BOOLEAN :
    /\ IF ok
       THEN /\ toast' = Toast("success", IF op.handler \in CountingTriggers
                                         THEN "Analysis complete!"
                                         ELSE "Predictions generated")
            /\ pending' = Await([op EXCEPT !.stage = "delay"]) (-) SetToBag({op})
            /\ UNCHANGED analyzing
       ELSE /\ toast' = Toast("error", IF op.handler \in CountingTriggers
                                       THEN "Failed to analyze repository"
                                       ELSE "Failed to generate predictions")
            /\ pending' = Resume(op) (+) catch(op)
            /\ analyzing' = FALSE
    /\ UNCHANGED budget
    /\ UNCHANGED <<backend, components, detailsPage, listPage, tools, selectedFile, fileContent,
                   selectedTestType, generatingTest, previewTest, isRefiningTest>>

\* the onClick after the delay: loadRepositoryDetails is called
ReviewReloads ==
  \E op \in PendingReviews("delay") :
    /\ pending' = Await([op EXCEPT !.stage = "reload"]) (-) SetToBag({op})
    /\ loading' = TRUE
    /\ UNCHANGED <<loadingFiles, files, data, sourceFiles, testFiles, sourceFilesWithTests,
                   totalCoverage, testMatches, fileCoverage, renderError>>
    /\ UNCHANGED budget
    /\ UNCHANGED <<backend, components, listPage, tools, selectedFile, fileContent, selectedTestType,
                   generatingTest, previewTest, isRefiningTest, analyzing, toast>>

\* the onClick once the details are reloaded: the counting triggers fetch the
\* details again and compare the counts, the others report; finally
\* setAnalyzing(false)
ReviewFinishes ==
  \E op \in PendingReviews("reload"),
     outcome \in {"fewer", "all", "between", "failed"} :
    /\ ~loading
    /\ pending' = Resume(op)
    /\ analyzing' = FALSE
    /\ IF op.handler \in CountingTriggers
       THEN toast' = CASE outcome = "fewer" -> Toast("info", "Some may still be saving.")
                       [] outcome = "all" -> Toast("success", "All issues loaded successfully!")
                       [] outcome = "between" -> toast
                       [] outcome = "failed" -> Toast("error", "Failed to analyze repository")
       ELSE /\ outcome = "all"
            /\ toast' = Toast("success", "Predictions generated!")
    /\ UNCHANGED budget
    /\ UNCHANGED <<backend, components, detailsPage, listPage, tools, selectedFile, fileContent,
                   selectedTestType, generatingTest, previewTest, isRefiningTest>>

(***************************************************************************)
(* The Tests page and the Predictions page.                                *)
(***************************************************************************)
Whitespace == {" ", "\n", "\t"}

RECURSIVE trimStart(_)
trimStart(s) ==
  IF s # << >> /\ Head(s) \in Whitespace THEN trimStart(Tail(s)) ELSE s

RECURSIVE trimEnd(_)
trimEnd(s) ==
  IF s # << >> /\ s[Len(s)] \in Whitespace THEN trimEnd(SubSeq(s, 1, Len(s) - 1)) ELSE s

trim(s) == trimEnd(trimStart(s))

\* what the code box of either page can hold
CodeBoxes == {<<"x"," ","="," ","1">>, <<" ">>}

repositoryDetails == <<selectedFile, fileContent, selectedTestType, generatingTest,
                       previewTest, isRefiningTest, analyzing, toast>>

\* Tests: handleGenerate up to its request
Tests_handleGenerate ==
  \E code \in CodeBoxes :
    LET request == [url |-> "/api/v1/tests/generate", code |-> [typed |-> code],
                    language |-> "python", test_type |-> "unit",
                    repository_id |-> 0, file_path |-> << >>]
    IN  /\ ~tests_loading
        /\ trim(code) # << >>
        /\ budget > 0
        /\ budget' = budget - 1
        /\ tests_loading' = TRUE
        /\ pending' = Await([handler |-> "Tests.handleGenerate", requests |-> 1,
                             request |-> request])
        /\ UNCHANGED <<backend, components, detailsPage, listPage, repositoryDetails, tests_result,
                       tests_toast, predictions_loading, predictions_result, console>>

\* Tests: handleGenerate from the answer on
Tests_GenerateAnswered ==
  \E op \in PendingOf("Tests.handleGenerate"), ok \in BOOLEAN :
    /\ pending' = Resume(op) (+) (IF ok THEN EmptyBag ELSE catch(op))
    /\ tests_loading' = FALSE
    /\ IF ok
       THEN /\ tests_result' = [test_code |-> testCodeOf(op.request)]
            /\ UNCHANGED <<tests_toast, console>>
       ELSE /\ console' = "Failed to generate tests:"
            /\ tests_toast' = Toast("error", "Failed to generate test")
            /\ UNCHANGED tests_result
    /\ UNCHANGED budget
    /\ UNCHANGED <<backend, components, detailsPage, listPage, repositoryDetails, predictions_loading,
                   predictions_result>>

\* Predictions: handlePredict up to its request
Predictions_handlePredict ==
  \E code \in CodeBoxes :
    LET request == [url |-> "/api/v1/predict/regression", code |-> [typed |-> code],
                    file_path |-> <<"s","r","c","/","m","a","i","n",".","p","y">>]
    IN  /\ ~predictions_loading
        /\ trim(code) # << >>
        /\ budget > 0
        /\ budget' = budget - 1
        /\ predictions_loading' = TRUE
        /\ pending' = Await([handler |-> "Predictions.handlePredict", requests |-> 1,
                             request |-> request])
        /\ UNCHANGED <<backend, components, detailsPage, listPage, repositoryDetails, tests_loading,
                       tests_result, tests_toast, predictions_result, console>>

\* Predictions: handlePredict from the answer on
Predictions_PredictAnswered ==
  \E op \in PendingOf("Predictions.handlePredict"), ok \in BOOLEAN :
    /\ pending' = Resume(op) (+) (IF ok THEN EmptyBag ELSE catch(op))
    /\ predictions_loading' = FALSE
    /\ IF ok
       THEN /\ predictions_result' = [risk_of |-> op.request.code]
            /\ UNCHANGED console
       ELSE /\ console' = "Failed to predict regression:"
            /\ UNCHANGED predictions_result
    /\ UNCHANGED budget
    /\ UNCHANGED <<backend, components, detailsPage, listPage, repositoryDetails, tests_loading,
                   tests_result, tests_toast>>

(***************************************************************************)
(* The pages with their handlers, on a repository of two source files.     *)
(***************************************************************************)
WorkflowInit ==
  /\ repoFiles = WorkflowListing
  /\ repoAnalyses = Analyses
  /\ repoTests = << >>
  /\ loading = TRUE
  /\ loadingFiles = TRUE
  /\ files = << >>
  /\ data = [loaded |-> FALSE, analyses |-> << >>, tests |-> << >>]
  /\ sourceFiles = << >>
  /\ testFiles = << >>
  /\ sourceFilesWithTests = {}
  /\ totalCoverage = [num |-> 0, den |-> 1]
  /\ testMatches = << >>
  /\ fileCoverage = << >>
  /\ renderError = FALSE
  /\ listLoading = FALSE
  /\ listSourceFiles = << >>
  /\ listTestFiles = << >>
  /\ listSourceFilesWithTests = {}
  /\ listTestMatches = << >>
  /\ repoStats = << >>
  /\ ListBackendInit
  /\ HandlersInit
  /\ ComponentsInit
  /\ mounted = "every page"
  /\ budget = MaxRequests

WorkflowNext ==
  \/ LoadRepositoryDetails
  \/ LoadRepositoryFiles
  \/ LoadFileContent
  \/ CloseFileViewer
  \/ HandleGenerateTest
  \/ GenerateTestAnswered
  \/ HandleRefineTest
  \/ RefineTestAnswered
  \/ HandleAcceptTest
  \/ AcceptTestAnswered
  \/ AcceptTestReloads
  \/ HandleDismissTest
  \/ ReviewRequested
  \/ ReviewAnswered
  \/ ReviewReloads
  \/ ReviewFinishes
  \/ Tests_handleGenerate
  \/ Tests_GenerateAnswered
  \/ Predictions_handlePredict
  \/ Predictions_PredictAnswered

WorkflowSpec == WorkflowInit /\ [][WorkflowNext]_vars

(***************************************************************************)
(* The repository page alone, with the handlers of the test preview.       *)
(***************************************************************************)
PreviewInit ==
  /\ repoFiles = WorkflowListing
  /\ repoAnalyses = Analyses
  /\ repoTests = << >>
  /\ loading = TRUE
  /\ loadingFiles = TRUE
  /\ files = << >>
  /\ data = [loaded |-> FALSE, analyses |-> << >>, tests |-> << >>]
  /\ sourceFiles = << >>
  /\ testFiles = << >>
  /\ sourceFilesWithTests = {}
  /\ totalCoverage = [num |-> 0, den |-> 1]
  /\ testMatches = << >>
  /\ fileCoverage = << >>
  /\ renderError = FALSE
  /\ listLoading = FALSE
  /\ listSourceFiles = << >>
  /\ listTestFiles = << >>
  /\ listSourceFilesWithTests = {}
  /\ listTestMatches = << >>
  /\ repoStats = << >>
  /\ ListBackendInit
  /\ HandlersInit
  /\ ComponentsInit
  /\ mounted = "every page"
  /\ budget = MaxPreviewRequests

PreviewNext ==
  \/ LoadRepositoryDetails
  \/ LoadRepositoryFiles
  \/ LoadFileContent
  \/ CloseFileViewer
  \/ HandleGenerateTest
  \/ GenerateTestAnswered
  \/ HandleRefineTest
  \/ RefineTestAnswered
  \/ HandleAcceptTest
  \/ AcceptTestAnswered
  \/ AcceptTestReloads
  \/ HandleDismissTest

PreviewSpec == PreviewInit /\ [][PreviewNext]_vars

(***************************************************************************)
(* AIWarningBanner, as the Tests page mounts it.  The mount effect calls   *)
(* checkAIStatus once, so a mounted banner starts with its status request  *)
(* in flight.  The props are the component's interface: onDismiss and      *)
(* compact are given or not by the parent.                                 *)
(***************************************************************************)
\* the answers of GET /api/v1/ai/status
AIStatuses == [openai_available : BOOLEAN, anthropic_available : BOOLEAN]

BannerProps == [onDismiss : BOOLEAN, compact : BOOLEAN]

\* a variant of aiNotAvailable that asks for one missing provider only
aiNotAvailable_either(aiStatus) ==
  aiStatus # null /\ (~aiStatus.openai_available \/ ~aiStatus.anthropic_available)

\* AIWarningBanner: aiNotAvailable of a render
aiNotAvailable(aiStatus) ==
  aiStatus # null /\ ~aiStatus.openai_available /\ ~aiStatus.anthropic_available

\* AIWarningBanner: what a render returns
AIWarningBanner ==
  IF banner_loading \/ banner_dismissed THEN "null"
  ELSE IF ~aiNotAvailable(banner_aiStatus) THEN "null"
  ELSE IF banner_props.compact THEN "compact"
  ELSE "full"

\* AIWarningBanner: checkAIStatus from the answer of getAIStatus on
Banner_StatusAnswered ==
  \E op \in PendingOf("AIWarningBanner.checkAIStatus"), ok \in BOOLEAN, status \in AIStatuses :
    /\ pending' = Resume(op) (+) (IF ok THEN EmptyBag ELSE catch(op))
    /\ IF ok
       THEN /\ banner_aiStatus' = status
            /\ UNCHANGED console
       ELSE /\ console' = "Failed to check AI status:"
            /\ UNCHANGED banner_aiStatus
    /\ banner_loading' = FALSE
    /\ UNCHANGED <<banner_props, banner_dismissed, budget>>
    /\ UNCHANGED <<backend, exceptBanner, detailsPage, listPage, repositoryDetails, tests_loading,
                   tests_result, tests_toast, predictions_loading, predictions_result>>

\* AIWarningBanner: handleDismiss, of the button that a rendered banner shows
\* when onDismiss is given; the parent's onDismiss changes nothing here
Banner_handleDismiss ==
  /\ AIWarningBanner # "null"
  /\ banner_props.onDismiss
  /\ banner_dismissed' = TRUE
  /\ UNCHANGED <<banner_props, banner_aiStatus, banner_loading>>
  /\ UNCHANGED <<backend, exceptBanner, detailsPage, listPage, handlers>>

(***************************************************************************)
(* The Tests page with its banner.                                         *)
(***************************************************************************)
TestsPageInit ==
  /\ repoFiles = WorkflowListing
  /\ repoAnalyses = Analyses
  /\ repoTests = << >>
  /\ loading = TRUE
  /\ loadingFiles = TRUE
  /\ files = << >>
  /\ data = [loaded |-> FALSE, analyses |-> << >>, tests |-> << >>]
  /\ sourceFiles = << >>
  /\ testFiles = << >>
  /\ sourceFilesWithTests = {}
  /\ totalCoverage = [num |-> 0, den |-> 1]
  /\ testMatches = << >>
  /\ fileCoverage = << >>
  /\ renderError = FALSE
  /\ listLoading = FALSE
  /\ listSourceFiles = << >>
  /\ listTestFiles = << >>
  /\ listSourceFilesWithTests = {}
  /\ listTestMatches = << >>
  /\ repoStats = << >>
  /\ ListBackendInit
  /\ selectedFile = << >>
  /\ fileContent = null
  /\ selectedTestType = "unit"
  /\ generatingTest = << >>
  /\ previewTest = null
  /\ isRefiningTest = FALSE
  /\ analyzing = FALSE
  /\ toast = null
  /\ tests_loading = FALSE
  /\ tests_result = null
  /\ tests_toast = null
  /\ predictions_loading = FALSE
  /\ predictions_result = null
  /\ console = ""
  /\ banner_props \in BannerProps
  /\ banner_aiStatus = null
  /\ banner_loading = TRUE
  /\ banner_dismissed = FALSE
  /\ ListModalsAtRest
  /\ ToastAtRest
  /\ ReviewAtRest
  /\ GithubFormAtRest
  /\ IssuesAtRest
  /\ mounted = "Tests"
  /\ pending = SetToBag({[handler |-> "AIWarningBanner.checkAIStatus", requests |-> 1,
                          request |-> [url |-> "/api/v1/ai/status"]]})
  /\ budget = MaxRequests

TestsPageNext ==
  \/ Tests_handleGenerate
  \/ Tests_GenerateAnswered
  \/ Banner_StatusAnswered
  \/ Banner_handleDismiss

TestsPageSpec == TestsPageInit /\ [][TestsPageNext]_vars

(***************************************************************************)
(* Repositories: the deletion of a repository.  The confirmation modal     *)
(* covers the page, and the page is rendered once loading is false.        *)
(***************************************************************************)
\* repo.name
nameOf(r) == IF r = RepoId THEN "aura" ELSE "other"

\* the confirmation modal is rendered
deleteModalOpen == ~listLoading /\ deleteModal # null /\ deleteModal.isOpen

\* a variant of the modal's state after a deletion, which keeps the modal of
\* a failed deletion
deleteModalAfter_kept(modal, ok) == IF ok THEN null ELSE modal

\* confirmDelete: setDeleteModal(null), of the try and of the catch
deleteModalAfter(modal, ok) == null

\* the array without a repository
without(array, r) == SelectSeq(array, LAMBDA x : x # r)

\* handleDeleteRepository, of the delete icon of a repository's card
Repositories_handleDeleteRepository ==
  \E r \in Elements(repos) :
    /\ ~listLoading
    /\ deleteModal = null
    /\ deleteModal' = [isOpen |-> TRUE, repoId |-> r, repoName |-> nameOf(r)]
    /\ UNCHANGED listToast
    /\ UNCHANGED <<backend, exceptListModals, detailsPage, listPage, handlers>>

\* cancelDelete, of the modal's Cancel and close buttons and of its backdrop
Repositories_cancelDelete ==
  /\ deleteModalOpen
  /\ deleteModal' = null
  /\ UNCHANGED listToast
  /\ UNCHANGED <<backend, exceptListModals, detailsPage, listPage, handlers>>

\* confirmDelete up to its request
Repositories_confirmDelete ==
  /\ deleteModalOpen
  /\ budget > 0
  /\ budget' = budget - 1
  /\ pending' = Await([handler |-> "confirmDelete", requests |-> 1,
                       request |-> [url |-> "DELETE /api/v1/repositories",
                                    id |-> deleteModal.repoId],
                       deleteModal |-> deleteModal])
  /\ UNCHANGED <<deleteModal, listToast>>
  /\ UNCHANGED <<backend, exceptListModals, detailsPage, listPage, repositoryDetails, tools>>

\* confirmDelete from the answer on; a deletion that succeeds calls
\* loadRepositories, which is not awaited
Repositories_DeleteAnswered ==
  \E op \in PendingOf("confirmDelete"), ok \in BOOLEAN :
    /\ deleteModal' = deleteModalAfter(deleteModal, ok)
    /\ IF ok
       THEN /\ repositories' = without(repositories, op.request.id)
            /\ listToast' = Toast("success", <<"Repository ", op.deleteModal.repoName,
                                               " deleted successfully">>)
            /\ pending' = Resume(op) (+) SetToBag({[handler |-> "loadRepositories",
                                                    requests |-> 1,
                                                    request |-> [url |-> "/api/v1/repositories"]]})
            /\ UNCHANGED console
       ELSE /\ console' = "Failed to delete repository:"
            /\ listToast' = Toast("error", <<"Failed to delete repository. Please try again.">>)
            /\ pending' = Resume(op) (+) catch(op)
            /\ UNCHANGED repositories
    /\ UNCHANGED <<repoFiles, repoAnalyses, repoTests, failing, budget>>
    /\ UNCHANGED <<exceptListModals, detailsPage, listPage, repositoryDetails, tests_loading,
                   tests_result, tests_toast, predictions_loading, predictions_result>>

\* loadRepositories, called after a deletion
Repositories_Reloaded ==
  \E op \in PendingOf("loadRepositories") :
    /\ pending' = Resume(op)
    /\ Repositories_loaded
    /\ UNCHANGED budget
    /\ UNCHANGED <<backend, components, detailsPage, repositoryDetails, tools>>

(***************************************************************************)
(* The Repositories page on two repositories.                              *)
(***************************************************************************)
RepositoriesInit ==
  /\ repoFiles = WorkflowListing
  /\ repoAnalyses = Analyses
  /\ repoTests = << >>
  /\ repositories = <<RepoId, OtherRepository>>
  /\ failing = {}
  /\ repos = << >>
  /\ loading = TRUE
  /\ loadingFiles = TRUE
  /\ files = << >>
  /\ data = [loaded |-> FALSE, analyses |-> << >>, tests |-> << >>]
  /\ sourceFiles = << >>
  /\ testFiles = << >>
  /\ sourceFilesWithTests = {}
  /\ totalCoverage = [num |-> 0, den |-> 1]
  /\ testMatches = << >>
  /\ fileCoverage = << >>
  /\ renderError = FALSE
  /\ listLoading = TRUE
  /\ listSourceFiles = << >>
  /\ listTestFiles = << >>
  /\ listSourceFilesWithTests = {}
  /\ listTestMatches = << >>
  /\ repoStats = << >>
  /\ HandlersInit
  /\ ComponentsInit
  /\ mounted = "Repositories"
  /\ budget = MaxRequests

RepositoriesNext ==
  \/ LoadRepositories
  \/ Repositories_handleDeleteRepository
  \/ Repositories_cancelDelete
  \/ Repositories_confirmDelete
  \/ Repositories_DeleteAnswered
  \/ Repositories_Reloaded

RepositoriesSpec == RepositoriesInit /\ [][RepositoriesNext]_vars

(***************************************************************************)
(* Toast, under a page that renders {toast && <Toast ... onClose={() =>    *)
(* setToast(null)} />}: the component is mounted while the page's toast    *)
(* state is set, and every render of the page passes a new onClose.  Time  *)
(* is counted in seconds; a timer that is due runs before the next second. *)
(***************************************************************************)
\* the default of the duration prop: 3000 ms
ToastDuration == 3

\* the longest time for which the visible time of a toast is counted
MaxAge == 6

ToastTypes == {"success", "error", "warning", "info"}

\* a variant of the effect that leaves a running timer alone
Toast_effect_keeping(timer, isVisible, duration) ==
  IF isVisible /\ duration > 0
  THEN IF timer # null THEN timer ELSE [remaining |-> duration]
  ELSE null

\* Toast: the effect, after the cleanup of the effect of the render before:
\* the timer it leaves
Toast_effect(timer, isVisible, duration) ==
  IF isVisible /\ duration > 0 THEN [remaining |-> duration] ELSE null

\* the toast is on the screen
toastVisible == toast # null /\ toast_isVisible

\* the page sets its toast state, and renders a Toast with props of its choice
Parent_setToast ==
  \E type \in ToastTypes, isVisible \in BOOLEAN, duration \in {0, ToastDuration} :
    /\ toast' = Toast(type, "message")
    /\ toast_isVisible' = isVisible
    /\ toast_duration' = duration
    /\ toast_timer' = Toast_effect(toast_timer, isVisible, duration)
    /\ toast_age' = 0
    /\ UNCHANGED <<selectedFile, fileContent, selectedTestType, generatingTest, previewTest,
                   isRefiningTest, analyzing, pending, budget, tools>>
    /\ UNCHANGED <<backend, exceptToast, detailsPage, listPage>>

\* the page renders again for another change of its state: the props of the
\* Toast are the same but for onClose, which is a new function
Parent_rerenders ==
  /\ toast # null
  /\ toast_timer' = Toast_effect(toast_timer, toast_isVisible, toast_duration)
  /\ UNCHANGED <<toast_isVisible, toast_duration, toast_age>>
  /\ UNCHANGED <<backend, exceptToast, detailsPage, listPage, handlers>>

\* onClose: setToast(null), which unmounts the Toast; the cleanup of its
\* effect clears the timer
Toast_onClose ==
  /\ toast' = null
  /\ toast_isVisible' = FALSE
  /\ toast_duration' = 0
  /\ toast_timer' = null
  /\ toast_age' = 0
  /\ UNCHANGED <<selectedFile, fileContent, selectedTestType, generatingTest, previewTest,
                 isRefiningTest, analyzing, pending, budget, tools>>
  /\ UNCHANGED <<backend, exceptToast, detailsPage, listPage>>

\* the callback of setTimeout
Toast_TimerFires ==
  /\ toast_timer # null
  /\ toast_timer.remaining = 0
  /\ Toast_onClose

\* the X button of a visible toast
Toast_CloseClicked ==
  /\ toastVisible
  /\ Toast_onClose

\* a second passes
Tick ==
  /\ toast_timer # null => toast_timer.remaining > 0
  /\ toast_timer' = IF toast_timer # null
                    THEN [remaining |-> toast_timer.remaining - 1]
                    ELSE null
  /\ toast_age' = IF toastVisible /\ toast_age < MaxAge THEN toast_age + 1 ELSE toast_age
  /\ UNCHANGED <<toast_isVisible, toast_duration>>
  /\ UNCHANGED <<backend, exceptToast, detailsPage, listPage, handlers>>

ToastInit ==
  /\ repoFiles = WorkflowListing
  /\ repoAnalyses = Analyses
  /\ repoTests = << >>
  /\ loading = TRUE
  /\ loadingFiles = TRUE
  /\ files = << >>
  /\ data = [loaded |-> FALSE, analyses |-> << >>, tests |-> << >>]
  /\ sourceFiles = << >>
  /\ testFiles = << >>
  /\ sourceFilesWithTests = {}
  /\ totalCoverage = [num |-> 0, den |-> 1]
  /\ testMatches = << >>
  /\ fileCoverage = << >>
  /\ renderError = FALSE
  /\ listLoading = FALSE
  /\ listSourceFiles = << >>
  /\ listTestFiles = << >>
  /\ listSourceFilesWithTests = {}
  /\ listTestMatches = << >>
  /\ repoStats = << >>
  /\ ListBackendInit
  /\ HandlersInit
  /\ ComponentsInit
  /\ mounted = "RepositoryDetails"
  /\ budget = 0

ToastNext ==
  \/ Parent_setToast
  \/ Parent_rerenders
  \/ Toast_TimerFires
  \/ Toast_CloseClicked
  \/ Tick

\* time passes, and a timer that is due runs
ToastSpec ==
  /\ ToastInit
  /\ [][ToastNext]_vars
  /\ WF_vars(Tick)
  /\ WF_vars(Toast_TimerFires)

(***************************************************************************)
(* Review: handleReview, with the controls that set what it reads.  The    *)
(* dropdown lists the repositories of the backend.                         *)
(***************************************************************************)
\* the two mode buttons
Review_setReviewMode ==
  \E mode \in {"code", "repository"} :
    /\ reviewPage' = IF mode = "code"
                     THEN [reviewPage EXCEPT !.reviewMode = "code", !.selectedRepoId = 0,
                                             !.result = null]
                     ELSE [reviewPage EXCEPT !.reviewMode = "repository", !.code = << >>,
                                             !.result = null]
    /\ UNCHANGED <<backend, exceptReview, detailsPage, listPage, handlers>>

\* the textarea of the code mode
Review_setCode ==
  \E code \in CodeBoxes :
    /\ reviewPage.reviewMode = "code"
    /\ reviewPage' = [reviewPage EXCEPT !.code = code]
    /\ UNCHANGED <<backend, exceptReview, detailsPage, listPage, handlers>>

\* the dropdown of the repository mode; its first option stands for null
Review_setSelectedRepoId ==
  \E r \in Elements(repositories) \cup {0} :
    /\ reviewPage.reviewMode = "repository"
    /\ reviewPage' = [reviewPage EXCEPT !.selectedRepoId = r]
    /\ UNCHANGED <<backend, exceptReview, detailsPage, listPage, handlers>>

\* the Review button of the current mode is enabled
Review_buttonEnabled ==
  /\ ~reviewPage.loading
  /\ reviewPage.reviewMode = "repository" => reviewPage.selectedRepoId # 0

\* what handleReview does before it sets loading: the message of its early
\* return, or none
Review_refusal ==
  IF reviewPage.reviewMode = "repository"
  THEN IF reviewPage.selectedRepoId = 0 THEN "Please select a repository to review" ELSE ""
  ELSE IF trim(reviewPage.code) = << >> THEN "Please enter some code to review" ELSE ""

\* the request of handleReview
Review_request ==
  IF reviewPage.reviewMode = "repository"
  THEN [url |-> "/api/v1/review/repository", id |-> reviewPage.selectedRepoId,
        code |-> [typed |-> << >>]]
  ELSE [url |-> "/api/v1/review/", id |-> 0, code |-> [typed |-> reviewPage.code]]

\* handleReview up to its request
Review_handleReview ==
  /\ Review_buttonEnabled
  /\ IF Review_refusal # ""
     THEN /\ reviewPage' = [reviewPage EXCEPT !.error = Review_refusal]
          /\ UNCHANGED <<pending, budget>>
     ELSE /\ budget > 0
          /\ budget' = budget - 1
          /\ reviewPage' = [reviewPage EXCEPT !.loading = TRUE, !.error = "", !.result = null]
          /\ pending' = Await([handler |-> "Review.handleReview", requests |-> 1,
                               request |-> Review_request])
  /\ UNCHANGED <<backend, exceptReview, detailsPage, listPage, repositoryDetails, tools>>

\* handleReview from the answer on
Review_ReviewAnswered ==
  \E op \in PendingOf("Review.handleReview"), ok \in BOOLEAN :
    /\ pending' = Resume(op) (+) (IF ok THEN EmptyBag ELSE catch(op))
    /\ reviewPage' =
         IF ok
         THEN [reviewPage EXCEPT !.result = [review_of |-> op.request], !.loading = FALSE]
         ELSE [reviewPage EXCEPT !.error = IF op.request.id # 0
                                           THEN "Failed to review repository"
                                           ELSE "Failed to perform review",
                                 !.loading = FALSE]
    /\ UNCHANGED budget
    /\ UNCHANGED <<backend, exceptReview, detailsPage, listPage, repositoryDetails, tools>>

(***************************************************************************)
(* Repositories: handleValidateGitHub, of the form that connects a GitHub  *)
(* repository; the form is open.                                           *)
(***************************************************************************)
GitHubUrls == {<< >>, <<"o","/","r">>}

\* the answers of validateGitHubUrl
ValidationResults == {[valid |-> TRUE, name |-> <<"r">>], [valid |-> FALSE, name |-> << >>]}

\* a variant of the finally that clears the flag of a validation that succeeded
validatingAfter_try(ok) == ~ok

\* handleValidateGitHub: finally setValidating(false)
validatingAfter(ok) == FALSE

\* the GitHub URL input
Repositories_setGithubUrl ==
  \E url \in GitHubUrls :
    /\ ~listLoading
    /\ githubForm' = [githubForm EXCEPT !.githubData.github_url = url]
    /\ UNCHANGED <<backend, exceptGithubForm, detailsPage, listPage, handlers>>

\* handleValidateGitHub up to its request
Repositories_handleValidateGitHub ==
  /\ ~listLoading
  /\ ~githubForm.validating
  /\ trim(githubForm.githubData.github_url) # << >>
  /\ budget > 0
  /\ budget' = budget - 1
  /\ githubForm' = [githubForm EXCEPT !.validating = TRUE, !.validationResult = null]
  /\ pending' = Await([handler |-> "handleValidateGitHub", requests |-> 1,
                       request |-> [url |-> "/api/v1/repositories/validate-github",
                                    code |-> [typed |-> githubForm.githubData.github_url]],
                       githubData |-> githubForm.githubData])
  /\ UNCHANGED <<backend, exceptGithubForm, detailsPage, listPage, repositoryDetails, tools>>

\* handleValidateGitHub from the answer on; setGithubData spreads the
\* githubData of the render that called the handler
Repositories_ValidateAnswered ==
  \E op \in PendingOf("handleValidateGitHub"), ok \in BOOLEAN, result \in ValidationResults :
    /\ pending' = Resume(op) (+) (IF ok THEN EmptyBag ELSE catch(op))
    /\ IF ok
       THEN /\ githubForm' =
                 [githubForm EXCEPT
                    !.validationResult = result,
                    !.githubData = IF result.valid /\ op.githubData.name = << >>
                                   THEN [op.githubData EXCEPT !.name = result.name]
                                   ELSE @,
                    !.validating = validatingAfter(ok)]
            /\ UNCHANGED console
       ELSE /\ console' = "Failed to validate GitHub URL:"
            /\ githubForm' =
                 [githubForm EXCEPT
                    !.validationResult = [valid |-> FALSE, error |-> "Validation failed"],
                    !.validating = validatingAfter(ok)]
    /\ UNCHANGED budget
    /\ UNCHANGED <<backend, exceptGithubForm, detailsPage, listPage, repositoryDetails,
                   tests_loading, tests_result, tests_toast, predictions_loading,
                   predictions_result>>

(***************************************************************************)
(* The pages of the App's routes, one mounted at a time, with every        *)
(* handler that sets a busy flag.                                          *)
(***************************************************************************)
Pages == {"RepositoryDetails", "Tests", "Predictions", "Review", "Repositories"}

PagesInit ==
  /\ repoFiles = WorkflowListing
  /\ repoAnalyses = Analyses
  /\ repoTests = << >>
  /\ loading = TRUE
  /\ loadingFiles = TRUE
  /\ files = << >>
  /\ data = [loaded |-> FALSE, analyses |-> << >>, tests |-> << >>]
  /\ sourceFiles = << >>
  /\ testFiles = << >>
  /\ sourceFilesWithTests = {}
  /\ totalCoverage = [num |-> 0, den |-> 1]
  /\ testMatches = << >>
  /\ fileCoverage = << >>
  /\ renderError = FALSE
  /\ listLoading = TRUE
  /\ listSourceFiles = << >>
  /\ listTestFiles = << >>
  /\ listSourceFilesWithTests = {}
  /\ listTestMatches = << >>
  /\ repoStats = << >>
  /\ ListBackendInit
  /\ HandlersInit
  /\ ComponentsInit
  /\ mounted \in Pages
  /\ budget = MaxRequests

PagesNext ==
  \/ mounted = "RepositoryDetails" /\ LoadRepositoryDetails
  \/ mounted = "RepositoryDetails" /\ LoadRepositoryFiles
  \/ mounted = "RepositoryDetails" /\ LoadFileContent
  \/ mounted = "RepositoryDetails" /\ CloseFileViewer
  \/ mounted = "RepositoryDetails" /\ HandleGenerateTest
  \/ mounted = "RepositoryDetails" /\ GenerateTestAnswered
  \/ mounted = "RepositoryDetails" /\ HandleRefineTest
  \/ mounted = "RepositoryDetails" /\ RefineTestAnswered
  \/ mounted = "RepositoryDetails" /\ HandleAcceptTest
  \/ mounted = "RepositoryDetails" /\ AcceptTestAnswered
  \/ mounted = "RepositoryDetails" /\ AcceptTestReloads
  \/ mounted = "RepositoryDetails" /\ HandleDismissTest
  \/ mounted = "RepositoryDetails" /\ ReviewRequested
  \/ mounted = "RepositoryDetails" /\ ReviewAnswered
  \/ mounted = "RepositoryDetails" /\ ReviewReloads
  \/ mounted = "RepositoryDetails" /\ ReviewFinishes
  \/ mounted = "Tests" /\ Tests_handleGenerate
  \/ mounted = "Tests" /\ Tests_GenerateAnswered
  \/ mounted = "Predictions" /\ Predictions_handlePredict
  \/ mounted = "Predictions" /\ Predictions_PredictAnswered
  \/ mounted = "Review" /\ Review_setReviewMode
  \/ mounted = "Review" /\ Review_setCode
  \/ mounted = "Review" /\ Review_setSelectedRepoId
  \/ mounted = "Review" /\ Review_handleReview
  \/ mounted = "Review" /\ Review_ReviewAnswered
  \/ mounted = "Repositories" /\ LoadRepositories
  \/ mounted = "Repositories" /\ Repositories_setGithubUrl
  \/ mounted = "Repositories" /\ Repositories_handleValidateGitHub
  \/ mounted = "Repositories" /\ Repositories_ValidateAnswered

PagesSpec == PagesInit /\ [][PagesNext]_vars

(***************************************************************************)
(* The two pages on the listings, in every order, of a repository with a   *)
(* test file that matches two source files.                                *)
(***************************************************************************)
OrderInit ==
  /\ repoFiles \in ArraysOf(OrderPool, MaxFiles)
  /\ repoAnalyses = Analyses
  /\ repoTests \in ArraysOf(TestPool, MaxTests)
  /\ loading = TRUE
  /\ loadingFiles = TRUE
  /\ files = << >>
  /\ data = [loaded |-> FALSE, analyses |-> << >>, tests |-> << >>]
  /\ sourceFiles = << >>
  /\ testFiles = << >>
  /\ sourceFilesWithTests = {}
  /\ totalCoverage = [num |-> 0, den |-> 1]
  /\ testMatches = << >>
  /\ fileCoverage = << >>
  /\ renderError = FALSE
  /\ listLoading = TRUE
  /\ listSourceFiles = << >>
  /\ listTestFiles = << >>
  /\ listSourceFilesWithTests = {}
  /\ listTestMatches = << >>
  /\ repoStats = << >>
  /\ ListBackendInit
  /\ HandlersInit
  /\ ComponentsInit
  /\ mounted = "every page"
  /\ budget = 0

OrderNext ==
  \/ LoadRepositoryDetails
  \/ LoadRepositoryFiles
  \/ LoadRepositories

OrderSpec == OrderInit /\ [][OrderNext]_vars

(***************************************************************************)
(* Issues: the filters and loadIssues.  The effect of [filters] calls      *)
(* loadIssues after the mount and after every setFilters; no call is       *)
(* cancelled, and the answers arrive in any order.  The issues of the      *)
(* backend do not change meanwhile.                                        *)
(***************************************************************************)
\* options of the severity select
Severities == {"", "high", "low"}

\* options of the issue type select
IssueTypes == {"", "bug"}

\* values of filters.fixed
FixedChoices == {"undefined", "true", "false"}

\* x || undefined of a string
orUndefined(x) == IF x = "" THEN "undefined" ELSE x

\* the parameters of getIssues for the filters of a render
issueParamsOf(filters) ==
  [severity |-> orUndefined(filters.severity),
   issue_type |-> orUndefined(filters.issue_type),
   fixed |-> filters.fixed]

\* the answer of GET /api/v1/issues: the issues that the parameters select
issuesOf(params) == <<[selected_by |-> params]>>

\* a variant of loadIssues that keeps the answer only of the request of the
\* current filters
issuesAfter_current(issues, filters, op) ==
  IF op.request.params = issueParamsOf(filters) THEN issuesOf(op.request.params) ELSE issues

\* loadIssues: setIssues(data)
issuesAfter(issues, filters, op) == issuesOf(op.request.params)

\* the call of loadIssues by the effect, for the filters of the render
Issues_loadIssues(filters) ==
  [handler |-> "Issues.loadIssues", requests |-> 1,
   request |-> [url |-> "/api/v1/issues", params |-> issueParamsOf(filters)]]

\* setFilters, and the effect of the next render
Issues_setFilters(filters) ==
  /\ ~issuesPage.loading
  /\ filters # issuesPage.filters
  /\ budget > 0
  /\ budget' = budget - 1
  /\ issuesPage' = [issuesPage EXCEPT !.filters = filters]
  /\ pending' = Await(Issues_loadIssues(filters))
  /\ UNCHANGED <<backend, exceptIssues, detailsPage, listPage, repositoryDetails, tools>>

\* the severity select
Issues_setSeverity ==
  \E severity \in Severities :
    Issues_setFilters([issuesPage.filters EXCEPT !.severity = severity])

\* the issue type select
Issues_setIssueType ==
  \E issue_type \in IssueTypes :
    Issues_setFilters([issuesPage.filters EXCEPT !.issue_type = issue_type])

\* the status select
Issues_setFixed ==
  \E value \in {"", "true", "false"} :
    Issues_setFilters([issuesPage.filters EXCEPT
                         !.fixed = IF value = "" THEN "undefined" ELSE value])

\* the Clear button, shown while a filter is set
Issues_clearFilters ==
  /\ \/ issuesPage.filters.severity # ""
     \/ issuesPage.filters.issue_type # ""
     \/ issuesPage.filters.fixed # "undefined"
  /\ Issues_setFilters([severity |-> "", issue_type |-> "", fixed |-> "undefined"])

\* loadIssues from the answer on
Issues_IssuesAnswered ==
  \E op \in PendingOf("Issues.loadIssues"), ok \in BOOLEAN :
    /\ pending' = Resume(op) (+) (IF ok THEN EmptyBag ELSE catch(op))
    /\ IF ok
       THEN /\ issuesPage' = [issuesPage EXCEPT
                                !.issues = issuesAfter(issuesPage.issues, issuesPage.filters, op),
                                !.loading = FALSE]
            /\ UNCHANGED console
       ELSE /\ console' = "Failed to load issues:"
            /\ issuesPage' = [issuesPage EXCEPT !.loading = FALSE]
    /\ UNCHANGED budget
    /\ UNCHANGED <<backend, exceptIssues, detailsPage, listPage, repositoryDetails,
                   tests_loading, tests_result, tests_toast, predictions_loading,
                   predictions_result>>

IssuesInit ==
  /\ repoFiles = WorkflowListing
  /\ repoAnalyses = Analyses
  /\ repoTests = << >>
  /\ loading = TRUE
  /\ loadingFiles = TRUE
  /\ files = << >>
  /\ data = [loaded |-> FALSE, analyses |-> << >>, tests |-> << >>]
  /\ sourceFiles = << >>
  /\ testFiles = << >>
  /\ sourceFilesWithTests = {}
  /\ totalCoverage = [num |-> 0, den |-> 1]
  /\ testMatches = << >>
  /\ fileCoverage = << >>
  /\ renderError = FALSE
  /\ listLoading = TRUE
  /\ listSourceFiles = << >>
  /\ listTestFiles = << >>
  /\ listSourceFilesWithTests = {}
  /\ listTestMatches = << >>
  /\ repoStats = << >>
  /\ ListBackendInit
  /\ selectedFile = << >>
  /\ fileContent = null
  /\ selectedTestType = "unit"
  /\ generatingTest = << >>
  /\ previewTest = null
  /\ isRefiningTest = FALSE
  /\ analyzing = FALSE
  /\ toast = null
  /\ tests_loading = FALSE
  /\ tests_result = null
  /\ tests_toast = null
  /\ predictions_loading = FALSE
  /\ predictions_result = null
  /\ console = ""
  /\ ComponentsInit
  /\ mounted = "Issues"
  /\ pending = SetToBag({Issues_loadIssues(issuesPage.filters)})
  /\ budget = MaxRequests

IssuesNext ==
  \/ Issues_setSeverity
  \/ Issues_setIssueType
  \/ Issues_setFixed
  \/ Issues_clearFilters
  \/ Issues_IssuesAnswered

IssuesSpec == IssuesInit /\ [][IssuesNext]_vars

(***************************************************************************)
(* Properties.                                                             *)
(***************************************************************************)
\* the RepositoryDetails page has both of its responses and has rendered
DetailsRendered == ~loading /\ ~loadingFiles

\* the Repositories page has finished loadRepositories
ListLoaded == ~listLoading

RelativePaths(arr) == {arr[i].relative_path : i \in 1..Len(arr)}

\* C1: for the same repository, the coverage shown by the Repositories list
\* (repoStats, one decimal place) equals the coverage shown by
\* RepositoryDetails (totalCoverage, one decimal place), both pages having
\* derived the same covered set.
C1_SameCoverageOnBothPages ==
  (DetailsRendered /\ ListLoaded) =>
     /\ listSourceFilesWithTests = sourceFilesWithTests
     /\ repoStats[RepoId].coverage = roundTenths(totalCoverage)

\* C2: every element of the covered set is the relative_path of a source
\* file, on the RepositoryDetails page and on the Repositories page.
C2_CoveredAreSourcePaths ==
  /\ sourceFilesWithTests \subseteq RelativePaths(sourceFiles)
  /\ listSourceFilesWithTests \subseteq RelativePaths(listSourceFiles)

\* C2 witness: both pages have processed a test file and a generated-test
\* record and each has a covered source file.
C2_Witness ==
  /\ DetailsRendered /\ ListLoaded
  /\ testFiles # << >> /\ data.tests # << >>
  /\ sourceFilesWithTests # {} /\ listSourceFilesWithTests # {}

\* C3: totalCoverage is 100 * |covered| / |sourceFiles|, 0 without source
\* files, and lies in [0, 100]; the Repositories page stores the same
\* quotient rounded to one decimal place.
C3_CoverageValue ==
  /\ totalCoverage.den > 0
  /\ totalCoverage.num * Len(sourceFiles)
       = 100 * Cardinality(sourceFilesWithTests) * totalCoverage.den
  /\ (sourceFiles = << >> => totalCoverage.num = 0)
  /\ 0 <= totalCoverage.num /\ totalCoverage.num <= 100 * totalCoverage.den
  /\ ListLoaded =>
       /\ repoStats[RepoId].coverage >= 0 /\ repoStats[RepoId].coverage <= 1000
       /\ repoStats[RepoId].coverage =
            IF listSourceFiles = << >> THEN 0
            ELSE (2000 * Cardinality(listSourceFilesWithTests) + Len(listSourceFiles))
                   \div (2 * Len(listSourceFiles))

\* C3 witness: two source files share a relative_path, a test file matches
\* them, and both pages show a coverage strictly between 0 and 100.
C3_Witness ==
  /\ DetailsRendered /\ ListLoaded
  /\ \E i, j \in 1..Len(sourceFiles) :
       i # j /\ sourceFiles[i].relative_path = sourceFiles[j].relative_path
  /\ testFiles # << >>
  /\ totalCoverage.num > 0 /\ totalCoverage.num < 100 * totalCoverage.den
  /\ repoStats[RepoId].coverage > 0 /\ repoStats[RepoId].coverage < 1000

\* the nine patterns of the classification rule
ClassificationPatterns ==
  {<<"t","e","s","t","_">>, <<"_","t","e","s","t">>, <<".","t","e","s","t",".">>, <<".","s","p","e","c",".">>, <<"t","e","s","t","s","/">>, <<"t","e","s","t","/">>, <<"_","_","t","e","s","t","_","_">>,
   <<"s","p","e","c","/">>, <<"_","_","t","e","s","t","s","_","_">>}

\* the lower-cased path or the lower-cased name contains one of the patterns
ContainsClassificationPattern ==
  [f \in AllFiles |->
     \E p \in ClassificationPatterns :
        \/ includes(toLowerCase(f.relative_path), p)
        \/ includes(toLowerCase(f.name), p)]

\* the extension allow-list of the specification
ExtensionAllowList ==
  {<<".","p","y">>, <<".","j","s">>, <<".","t","s">>, <<".","j","s","x">>, <<".","t","s","x">>, <<".","j","a","v","a">>, <<".","c","p","p">>, <<".","c">>, <<".","h">>,
   <<".","c","s">>, <<".","g","o">>, <<".","r","s">>, <<".","r","b">>, <<".","p","h","p">>}

HasAllowedExtension == [f \in AllFiles |-> toLowerCase(f.extension) \in ExtensionAllowList]

\* C4: isTestFile holds of a file exactly when its lower-cased path or name
\* contains one of the nine patterns, and the files with an allowed
\* extension are split between sourceFiles and testFiles: each is in exactly
\* one of the two, and the two together are allCodeFiles.
C4_ClassificationRule ==
  /\ \A i \in 1..Len(files) :
       LET f == files[i]
       IN  /\ IsTest(f) <=> ContainsClassificationPattern[f]
           /\ (f \in Elements(testFiles))
                <=> (HasAllowedExtension[f] /\ ContainsClassificationPattern[f])
           /\ (f \in Elements(sourceFiles))
                <=> (HasAllowedExtension[f] /\ ~ContainsClassificationPattern[f])
  /\ Elements(sourceFiles) \cap Elements(testFiles) = {}
  /\ Len(sourceFiles) + Len(testFiles)
       = Cardinality({i \in 1..Len(files) : HasAllowedExtension[files[i]]})

\* C4 witness: a listing with a source file, a test file and a file outside
\* the allow-list has been classified.
C4_Witness ==
  /\ ~loadingFiles
  /\ sourceFiles # << >> /\ testFiles # << >>
  /\ Len(sourceFiles) + Len(testFiles) < Len(files)

\* C5: the Repositories page and the RepositoryDetails page put every file
\* of the listing in the same class (source, test, or excluded).
C5_SameClassification ==
  (ListLoaded /\ ~loadingFiles) =>
     /\ listSourceFiles = sourceFiles
     /\ listTestFiles = testFiles

\* C5 witness: both pages have classified a listing with a source file, a
\* test file and a file outside the allow-list.
C5_Witness ==
  /\ ListLoaded /\ ~loadingFiles
  /\ listSourceFiles # << >> /\ listTestFiles # << >>
  /\ Len(listSourceFiles) + Len(listTestFiles) < Len(repoFiles)

\* sourceFiles[i] is the first source file, in list order, that test file t
\* matches on the RepositoryDetails page
FirstMatchOfFile(t, i) ==
  /\ matchesSourceMemo[t][sourceFiles[i]]
  /\ \A j \in 1..(i - 1) : ~matchesSourceMemo[t][sourceFiles[j]]

\* the analysis_id of record r resolves to an analysis with a file_path
Resolves(r) ==
  \E k \in 1..Len(data.analyses) :
     data.analyses[k].id = r.analysis_id /\ data.analyses[k].file_path # << >>

ResolvedAnalysis(r) ==
  data.analyses[CHOOSE k \in 1..Len(data.analyses) : data.analyses[k].id = r.analysis_id]

\* some source file satisfies the analysis_id predicate with record r
AnalysisBranchMatches(r) ==
  /\ Resolves(r)
  /\ \E i \in 1..Len(sourceFiles) : matchesAnalysisMemo[ResolvedAnalysis(r)][sourceFiles[i]]

\* the matching predicate of a generated-test record r with source file f on
\* the RepositoryDetails page: the analysis_id predicate, or, when that
\* matches no source file, the test_file_path predicate
RecordMatches(r, f) ==
  IF AnalysisBranchMatches(r)
  THEN matchesAnalysisMemo[ResolvedAnalysis(r)][f]
  ELSE r.test_file_path # << >> /\ matchesTestFilePathMemo[r][f]

FirstMatchOfRecord(r, i) ==
  /\ RecordMatches(r, sourceFiles[i])
  /\ \A j \in 1..(i - 1) : ~RecordMatches(r, sourceFiles[j])

InsertBeforeExtension(name, marker) ==
  LET d == lastIndexOf(name, <<".">>)
  IN  SubSeq(name, 1, d) \o marker \o SubSeq(name, d + 1, Len(name))

\* the strict naming rule: the lower-cased name of t is test_<name of s>, or
\* the name of s with _test, .test or .spec before its extension
StrictlyNamed ==
  [t \in AllFiles |-> [s \in AllFiles |->
     LET n == toLowerCase(s.name)
         tn == toLowerCase(t.name)
     IN  \/ tn = <<"t","e","s","t","_">> \o n
         \/ /\ includes(n, <<".">>)
            /\ \/ tn = InsertBeforeExtension(n, <<"_","t","e","s","t">>)
               \/ tn = InsertBeforeExtension(n, <<".","t","e","s","t">>)
               \/ tn = InsertBeforeExtension(n, <<".","s","p","e","c">>)]]

\* listSourceFiles[i] is the first source file that test file t matches on
\* the Repositories page
ListFirstMatchOfFile(t, i) ==
  /\ Repositories_matchesSourceMemo[t][listSourceFiles[i]]
  /\ \A j \in 1..(i - 1) : ~Repositories_matchesSourceMemo[t][listSourceFiles[j]]

WithoutExtension(name) ==
  IF includes(name, <<".">>) THEN SubSeq(name, 1, lastIndexOf(name, <<".">>)) ELSE name

EndsWith(s, suffix) == OccursAt(s, suffix, Len(s) - Len(suffix))

\* a test file's name with the extension and the test marker stripped
WithoutMarker(name) ==
  LET e == WithoutExtension(name)
  IN  IF OccursAt(e, <<"t","e","s","t","_">>, 0) THEN SubSeq(e, 6, Len(e))
      ELSE IF EndsWith(e, <<"_","t","e","s","t">>) \/ EndsWith(e, <<".","t","e","s","t">>) \/ EndsWith(e, <<".","s","p","e","c">>)
           THEN SubSeq(e, 1, Len(e) - 5)
           ELSE e

\* the extension-insensitive name match of test file t and source file s
SameBaseName ==
  [t \in AllFiles |-> [s \in AllFiles |->
     WithoutMarker(toLowerCase(t.name)) = WithoutExtension(toLowerCase(s.name))]]

\* the listing of the specification's second example
ExampleTwo ==
  << File(<<"c","a","l","c",".","p","y">>, <<"s","r","c","/","c","a","l","c",".","p","y">>, <<".","p","y">>),
     File(<<"u","t","i","l",".","p","y">>, <<"s","r","c","/","u","t","i","l",".","p","y">>, <<".","p","y">>),
     File(<<"c","a","l","c",".","t","e","s","t",".","j","s">>, <<"s","r","c","/","c","a","l","c",".","t","e","s","t",".","j","s">>, <<".","j","s">>) >>

\* C8: a test file whose name without marker and extension equals a source
\* file's name without extension matches that source file, whatever the two
\* extensions, on the RepositoryDetails page and on the Repositories page;
\* calc.py, util.py and calc.test.js give 50% on both.
C8_ExtensionInsensitiveMatch ==
  /\ DetailsRendered =>
       /\ \A t \in Elements(testFiles) : \A s \in Elements(sourceFiles) :
             SameBaseName[t][s] => matchesSourceMemo[t][s]
       /\ (files = ExampleTwo /\ data.tests = << >>) => roundTenths(totalCoverage) = 500
  /\ ListLoaded =>
       /\ \A t \in Elements(listTestFiles) : \A s \in Elements(listSourceFiles) :
             SameBaseName[t][s] => Repositories_matchesSourceMemo[t][s]
       /\ (repoFiles = ExampleTwo /\ repoTests = << >>) => repoStats[RepoId].coverage = 500

\* the analysis names the source file: its file_path is the file's
\* relative_path, letter case aside
AnalysisNames ==
  [a \in AnalysisPool |-> [f \in AllFiles |->
     toLowerCase(a.file_path) = toLowerCase(f.relative_path)]]

\* C9: a record whose analysis_id resolves to an analysis that names source
\* file S adds the relative_path of S and of no other source file, on the
\* RepositoryDetails page and on the Repositories page.
C9_AnalysisCoversItsFile ==
  /\ DetailsRendered =>
       \A k \in 1..Len(data.tests) : \A a \in Elements(data.analyses) :
          \A s \in Elements(sourceFiles) :
             (a.id = data.tests[k].analysis_id /\ AnalysisNames[a][s])
               => /\ testMatches[k].index # 0
                  /\ sourceFiles[testMatches[k].index].relative_path = s.relative_path
  /\ ListLoaded =>
       \A k \in 1..Len(repoTests) : \A a \in Elements(repoAnalyses) :
          \A s \in Elements(listSourceFiles) :
             (a.id = repoTests[k].analysis_id /\ AnalysisNames[a][s])
               => /\ listTestMatches[k] # 0
                  /\ listSourceFiles[listTestMatches[k]].relative_path = s.relative_path

\* the test file a record's test_file_path would be in the listing
FileAt(path) ==
  File(splitPop(path), path, <<".">> \o SubSeq(path, lastIndexOf(path, <<".">>) + 2, Len(path)))

\* the source files that a test file located at the record's test_file_path
\* matches under the rule of matchTestFileToSource
MatchesAsTestFile ==
  [r \in TestPool |-> [s \in AllFiles |->
     r.test_file_path # << >> /\ matchesSource(FileAt(r.test_file_path), s)]]

\* C10: a record is covered through its test_file_path only when its
\* analysis_id does not resolve, and every record with a test_file_path whose
\* analysis_id does not resolve goes through the test_file_path; it then
\* covers the source file that matchTestFileToSource gives for a test file
\* at that path; and the Repositories page covers the same source file.
C10_FallbackRule ==
  /\ DetailsRendered =>
       \A k \in 1..Len(data.tests) :
          LET r == data.tests[k]
          IN  /\ (testMatches[k].via = "test_file_path" /\ testMatches[k].index # 0)
                   => ~Resolves(r)
              /\ (~Resolves(r) /\ r.test_file_path # << >>)
                   => testMatches[k].via = "test_file_path"
              /\ (testMatches[k].via = "test_file_path")
                   => testMatches[k].index
                        = findIndex([i \in 1..Len(sourceFiles) |->
                                       MatchesAsTestFile[r][sourceFiles[i]]])
  /\ (DetailsRendered /\ ListLoaded) =>
       \A k \in 1..Len(data.tests) : listTestMatches[k] = testMatches[k].index

\* no test file's stripped name equals a source file's base name, and no
\* generated-test record is matched to a source file
NothingNamed ==
  /\ \A t \in Elements(testFiles) : \A s \in Elements(sourceFiles) : ~SameBaseName[t][s]
  /\ \A k \in 1..Len(data.tests) : testMatches[k].index = 0

\* C11: when no test file's name, with marker and extension stripped, equals
\* a source file's base name, and no generated-test record matches a source
\* file, the covered set is empty and the coverage is 0 (src/a.py with
\* tests/test_bar.py gives 0%).
C11_NoNameMatchNoCoverage ==
  (DetailsRendered /\ NothingNamed) =>
     /\ sourceFilesWithTests = {}
     /\ roundTenths(totalCoverage) = 0

\* the covered set of the rendered page had its last test file not been listed
CoveredWithoutLastTestFile ==
  sourceFilesWithTestsOf(sourceFiles, SubSeq(testFiles, 1, Len(testFiles) - 1),
                         data.analyses, data.tests)

\* C12: with the source files, analyses and records fixed, the test file
\* appended last to testFiles removes nothing from the covered set, adds at
\* most one element to it, and does not lower totalCoverage.
C12_AppendingTestFileIsMonotone ==
  (DetailsRendered /\ testFiles # << >>) =>
     /\ CoveredWithoutLastTestFile \subseteq sourceFilesWithTests
     /\ Cardinality(sourceFilesWithTests) <= Cardinality(CoveredWithoutLastTestFile) + 1
     /\ totalCoverageOf(Cardinality(CoveredWithoutLastTestFile), Len(sourceFiles)).num
          <= totalCoverage.num

\* C12 witness: a source file was covered already, and the test file
\* appended last covers one more.
C12_Witness ==
  /\ DetailsRendered
  /\ testFiles # << >>
  /\ CoveredWithoutLastTestFile # {}
  /\ Cardinality(sourceFilesWithTests) = Cardinality(CoveredWithoutLastTestFile) + 1

\* a file record that has its relative_path, name and extension
WellFormed(f) ==
  f.relative_path # undefined /\ f.name # undefined /\ f.extension # undefined

\* the coverage, in tenths, that the Repositories page computes for a listing
ListCoverageOf(fs) ==
  LET srcs == Repositories_sourceFilesOf(fs)
      tfs == Repositories_testFilesOf(fs)
      covered == Repositories_sourceFilesWithTestsOf(srcs, tfs, repoAnalyses, repoTests)
  IN  roundTenths(Repositories_totalCoverageOf(Cardinality(covered), Len(srcs)))

\* C13: a record that lacks a field is treated as matching nothing: no
\* render raises an error, and both pages classify and count the well-formed
\* files as if the malformed records were not listed.
C13_MalformedRecordsAreSkipped ==
  /\ ~renderError
  /\ DetailsRendered =>
       /\ sourceFiles = sourceFilesOf(SelectSeq(files, WellFormed))
       /\ testFiles = testFilesOf(SelectSeq(files, WellFormed))
  /\ ListLoaded =>
       repoStats[RepoId].coverage = ListCoverageOf(SelectSeq(repoFiles, WellFormed))

\* C14: a source file is shown with a file coverage of 100 in the Overview
\* file list exactly when its relative_path is in the covered set, and the
\* number of files shown with 100 is the size of the covered set.
C14_FileFlagAgreesWithCoveredSet ==
  DetailsRendered =>
    /\ \A i \in 1..Len(sourceFiles) :
          (fileCoverage[i] = 100) <=> (sourceFiles[i].relative_path \in sourceFilesWithTests)
    /\ Cardinality({i \in 1..Len(sourceFiles) : fileCoverage[i] = 100})
         = Cardinality(sourceFilesWithTests)

(***************************************************************************)
(* Claims on the handlers.                                                 *)
(***************************************************************************)
\* the message of the error toast of a handler of the repository page
FailureToastOf(handler) ==
  CASE handler = "handleGenerateTest" -> "Failed to generate test"
    [] handler = "handleRefineTest" -> "Failed to refine test"
    [] handler = "handleAcceptTest" -> "Failed to save test"
    [] handler \in CountingTriggers -> "Failed to analyze repository"
    [] OTHER -> "Failed to generate predictions"

\* the state shows that a call of the handler has failed
FailureShown(handler) ==
  CASE handler = "Tests.handleGenerate" ->
         /\ tests_toast = Toast("error", "Failed to generate test")
         /\ console = "Failed to generate tests:"
    [] handler = "Predictions.handlePredict" -> console = "Failed to predict regression:"
    [] OTHER -> toast = Toast("error", FailureToastOf(handler))

\* the state shows the answer to the request of op
SuccessShown(op) ==
  CASE op.handler = "handleGenerateTest" ->
         /\ previewTest # null
         /\ previewTest.code = testCodeOf(op.request)
         /\ previewTest.filePath = op.filePath
    [] op.handler = "handleRefineTest" -> toast = Toast("success", "Test refined successfully!")
    [] op.handler = "Tests.handleGenerate" ->
         tests_result = [test_code |-> testCodeOf(op.request)]
    [] op.handler = "Predictions.handlePredict" ->
         predictions_result = [risk_of |-> op.request.code]
    [] OTHER -> FALSE

\* op waits for the answer to the request of its handler
AwaitsAnswer(op) ==
  /\ "saved" \in DOMAIN op => ~op.saved
  /\ "stage" \in DOMAIN op => op.stage = "review"

RunningReviews == {op \in BagToSet(pending) : op.handler \in ReviewTriggers}

ReviewsInFlight ==
  BagCardinality([op \in PendingReviews("review") |-> CopiesIn(op, pending)])

\* C16: on the mounted repository page at most one review request is in
\* flight.  While a trigger's handler runs analyzing is true; while analyzing
\* is true no step sends a review request; analyzing becomes false only in a
\* step in which the running handler finishes.
C16_OneReviewInFlight ==
  /\ [](ReviewsInFlight <= 1)
  /\ [](RunningReviews # {} => analyzing)
  /\ [][analyzing =>
          \A op \in PendingReviews("review")' : CopiesIn(op, pending') <= CopiesIn(op, pending)]_vars
  /\ [][(analyzing /\ ~analyzing') =>
          \E op \in RunningReviews : pending' = pending (-) SetToBag({op})]_vars

\* a review request is in flight, the page can be clicked and a request
\* could still be sent
C16_Witness ==
  /\ analyzing
  /\ PendingReviews("review") # {}
  /\ PageClickable
  /\ budget > 0

\* the requests in flight that carry a repository_id and a file_path
SaveRequests ==
  {op \in BagToSet(pending) : op.request.repository_id # 0 \/ op.request.file_path # << >>}

\* the file whose content the code of a test was generated from
GeneratedFrom(code) ==
  IF "instructions" \in DOMAIN code.tests_of
  THEN code.tests_of.code.content_of
  ELSE code.tests_of.content_of

C17_GenerateAndRefineDoNotSave ==
  [](\A op \in PendingOf("handleGenerateTest") \cup PendingOf("handleRefineTest") :
       op.request.repository_id = 0 /\ op.request.file_path = << >>)

\* C17, its second part alone
C17_OnlyAcceptSaves ==
  /\ [](\A op \in SaveRequests : op.handler = "handleAcceptTest")
  /\ [][\A op \in SaveRequests' :
          (AwaitsAnswer(op) /\ CopiesIn(op, pending') > CopiesIn(op, pending)) =>
            previewTest # null]_vars

\* C17, its last part alone
C17_SavedForItsFile ==
  [](\A op \in SaveRequests :
       op.request.repository_id = RepoId
         /\ op.request.file_path = GeneratedFrom(op.request.code))

\* the calls of handleAcceptTest that wait for the answer to the save request
AwaitedSaves == {op \in PendingOf("handleAcceptTest") : ~op.saved}

\* the step is the one in which the save request of op succeeds
SaveSucceeds(op) ==
  pending' = (pending (-) SetToBag({op})) (+) SetToBag({[op EXCEPT !.saved = TRUE]})

\* the step is the one in which the save request of op fails
SaveFails(op) == pending' = pending (-) SetToBag({op})

\* C18: handleAcceptTest.  When the save request succeeds the preview is
\* closed (previewTest null, success toast) and the handler goes on to reload:
\* its next step starts both loadRepositoryDetails and loadRepositoryFiles.
\* When the save request fails previewTest is left as it is, the error toast
\* is shown and nothing is reloaded.  Without a preview no save request is
\* sent.
C18_AcceptOutcomes ==
  /\ [][\A op \in AwaitedSaves :
          /\ SaveSucceeds(op) =>
               previewTest' = null /\ toast' = Toast("success", "Test saved successfully!")
          /\ SaveFails(op) =>
               /\ previewTest' = previewTest
               /\ toast' = Toast("error", "Failed to save test")
               /\ loading' = loading /\ loadingFiles' = loadingFiles
               /\ files' = files /\ data' = data]_vars
  /\ [][\A op \in PendingOf("handleAcceptTest") :
          (op.saved /\ pending' = pending (-) SetToBag({op})) =>
            loading' /\ loadingFiles']_vars
  /\ [][previewTest = null => AwaitedSaves' \subseteq AwaitedSaves]_vars

\* a save has succeeded: the preview is closed and both reloads are under way
C18_Witness ==
  /\ previewTest = null
  /\ toast = Toast("success", "Test saved successfully!")
  /\ loading /\ loadingFiles
  /\ data.loaded
  /\ budget = 0

\* the step is the one in which the refinement request of op is answered
RefinementSucceeds(op) ==
  /\ pending' = pending (-) SetToBag({op})
  /\ toast' = Toast("success", "Test refined successfully!")

\* the step is the one in which the refinement request of op fails
RefinementFails(op) ==
  /\ pending' = pending (-) SetToBag({op})
  /\ toast' = Toast("error", "Failed to refine test")

\* C19, the test type alone: the preview keeps the type its test was
\* generated with, a refinement asks for that type, and that type is the
\* test_type of the save request, whatever selectedTestType is
C19_TestTypeKept ==
  /\ [](previewTest # null => previewTest.testType = previewTest.code.test_type)
  /\ [](\A op \in PendingOf("handleRefineTest") :
          op.request.test_type = op.previewTest.testType)
  /\ [](\A op \in PendingOf("handleAcceptTest") :
          op.request.test_type = op.request.code.test_type)

\* C19, the failed refinement alone: it leaves the preview as it is
C19_FailedRefinementKeepsPreview ==
  [][\A op \in PendingOf("handleRefineTest") :
       RefinementFails(op) => previewTest' = previewTest]_vars

\* C19: the test type chosen at generation is kept through the refinements
\* and is the test_type of the save request, whatever selectedTestType is; an
\* answered refinement changes only code, sourceCode and coverage of the
\* preview and leaves fileName, filePath, language and testType; a failed
\* refinement leaves the whole preview.
C19_RefinementKeepsTypeAndFile ==
  /\ [](previewTest # null => previewTest.testType = previewTest.code.test_type)
  /\ [](\A op \in PendingOf("handleRefineTest") :
          op.request.test_type = op.previewTest.testType)
  /\ [](\A op \in PendingOf("handleAcceptTest") :
          op.request.test_type = op.request.code.test_type)
  /\ [][\A op \in PendingOf("handleRefineTest") :
          /\ RefinementSucceeds(op) =>
               /\ previewTest # null
               /\ previewTest' # null
               /\ previewTest'.fileName = previewTest.fileName
               /\ previewTest'.filePath = previewTest.filePath
               /\ previewTest'.language = previewTest.language
               /\ previewTest'.testType = previewTest.testType
          /\ RefinementFails(op) => previewTest' = previewTest]_vars

\* the listing that the backend holds for a repository
ListingOf(r) == IF r = RepoId THEN repoFiles ELSE OtherListing

DetailsFail(r) == Request("details", r) \in failing

FilesFail(r) == Request("files", r) \in failing

\* C20: loadRepositories.  Once it is over loading is false and repoStats has
\* one entry per repository of the list; the entry of a repository whose
\* details request failed is {issues: 0, coverage: 0}; the entry of one whose
\* file listing alone failed keeps the issue count with coverage 0; the entry
\* of every other one is its issue count with the coverage of its own
\* listing, whatever failed for the other repositories.
C20_StatsPerRepository ==
  /\ [][listLoading => ~listLoading']_vars
  /\ [](~listLoading =>
          /\ DOMAIN repoStats = Elements(repos)
          /\ Request("repositories", 0) \notin failing => repos = repositories
          /\ \A r \in DOMAIN repoStats :
               /\ DetailsFail(r) => repoStats[r] = [issues |-> 0, coverage |-> 0]
               /\ (~DetailsFail(r) /\ FilesFail(r)) =>
                    repoStats[r] = [issues |-> statistics(r).total_issues, coverage |-> 0]
               /\ (~DetailsFail(r) /\ ~FilesFail(r)) =>
                    repoStats[r] = [issues |-> statistics(r).total_issues,
                                    coverage |-> ListCoverageOf(ListingOf(r))])

\* two repositories are listed; the details request of the first and the file
\* listing of the second, each with a covered source file, have failed
C20_Witness ==
  /\ ~listLoading
  /\ repos = <<RepoId, OtherRepository>>
  /\ failing = {Request("details", RepoId), Request("files", OtherRepository)}
  /\ ListCoverageOf(repoFiles) = 1000
  /\ repoStats[RepoId] = [issues |-> 0, coverage |-> 0]
  /\ repoStats[OtherRepository] = [issues |-> 7, coverage |-> 0]

(***************************************************************************)
(* AIWarningBanner.                                                        *)
(***************************************************************************)
StatusRequests == PendingOf("AIWarningBanner.checkAIStatus")

\* the step in which the status request fails
StatusFails ==
  /\ StatusRequests # {}
  /\ pending' = pending (-) SetToBag(StatusRequests)
  /\ console' = "Failed to check AI status:"

\* C21: the banner is rendered exactly when the status request has been
\* answered, the answer names neither provider as available and the banner has
\* not been dismissed; a failed request leaves no status, without a request
\* in flight the status does not change, and a dismissed banner stays
\* dismissed
C21_BannerRendered ==
  /\ [](AIWarningBanner # "null"
          <=> /\ StatusRequests = {}
              /\ banner_aiStatus \in AIStatuses
              /\ banner_aiStatus.openai_available = FALSE
              /\ banner_aiStatus.anthropic_available = FALSE
              /\ ~banner_dismissed)
  /\ [][StatusFails => banner_aiStatus' = null]_vars
  /\ [][StatusRequests = {} => banner_aiStatus' = banner_aiStatus]_vars
  /\ [][banner_dismissed => banner_dismissed' /\ AIWarningBanner' = "null"]_vars

\* the banner was rendered, without a provider, and has been dismissed while
\* the page generates
C21_Witness ==
  /\ banner_dismissed
  /\ aiNotAvailable(banner_aiStatus)
  /\ tests_loading

(***************************************************************************)
(* Repositories: the deletion of a repository.                             *)
(***************************************************************************)
DeleteRequests == PendingOf("confirmDelete")

\* the delete requests that the step sends
DeleteRequestsSent ==
  {op \in PendingOf("confirmDelete")' : CopiesIn(op, pending') > CopiesIn(op, pending)}

\* the step in which a delete request is answered
DeleteCompletes ==
  \E op \in DeleteRequests : pending' (+) SetToBag({op}) = pending
                               \/ \E reload \in PendingOf("loadRepositories")' :
                                    pending' (+) SetToBag({op}) = pending (+) SetToBag({reload})

ReloadsSent ==
  {op \in PendingOf("loadRepositories")' : CopiesIn(op, pending') > CopiesIn(op, pending)}

\* C22: a delete request is sent only while the confirmation modal is open,
\* for the repository the modal names, and the step leaves the modal as it
\* is; a step that opens or closes the modal sends no delete request; the step
\* that answers a delete request closes the modal; the list is reloaded only
\* by the answer of a deletion that succeeded
C22_DeleteOnlyConfirmed ==
  /\ [][\A op \in DeleteRequestsSent :
          /\ deleteModalOpen
          /\ op.request.id = deleteModal.repoId
          /\ deleteModal' = deleteModal]_vars
  /\ [][deleteModal' # deleteModal => DeleteRequestsSent = {}]_vars
  /\ [][deleteModal = null /\ deleteModal' # null
          => pending' = pending /\ deleteModal'.isOpen /\ repositories' = repositories]_vars
  /\ [][DeleteCompletes => deleteModal' = null]_vars
  /\ [][ReloadsSent # {}
          => DeleteCompletes /\ listToast'.type = "success"]_vars
  /\ [][repositories' # repositories => DeleteCompletes]_vars

\* a deletion has failed and has closed the modal, with the list as it was
C22_Witness ==
  /\ deleteModal = null
  /\ listToast # null
  /\ listToast.type = "error"
  /\ repos = <<RepoId, OtherRepository>>
  /\ repositories = <<RepoId, OtherRepository>>
  /\ pending = EmptyBag

(***************************************************************************)
(* Toast.                                                                  *)
(***************************************************************************)
\* a toast that closes by itself is on the screen
AutoClosing == toastVisible /\ toast_duration > 0

\* C23 (the timers): a timer is pending only for a mounted, visible toast
\* with a positive duration
C23_NoStrayTimer ==
  toast_timer # null => toast # null /\ toast_isVisible /\ toast_duration > 0

\* C23: a visible toast with a positive duration is closed once its duration
\* has elapsed: it is never on the screen for longer than its duration
C23_ClosedOnceDurationElapses ==
  AutoClosing => toast_age <= toast_duration

\* C23 (eventually): a visible toast with a positive duration eventually
\* leaves the screen, or is replaced by another toast
C23_EventuallyClosed ==
  AutoClosing ~> (~AutoClosing \/ toast_age = 0)

(***************************************************************************)
(* The busy flags.                                                         *)
(***************************************************************************)
\* the calls of the handlers of a set that wait for an answer or for a
\* later step of theirs
Running(handlerSet) == {op \in BagToSet(pending) : op.handler \in handlerSet}

\* the step ends a call of a handler of the set: the call leaves pending and
\* no later step of it enters
Settles(handlerSet) ==
  \E op \in Running(handlerSet) :
    /\ CopiesIn(op, pending') < CopiesIn(op, pending)
    /\ \A next \in BagToSet(pending') :
         next.handler = op.handler => CopiesIn(next, pending') <= CopiesIn(next, pending)

\* C24: a busy flag is set only while a call of its handler is running, and
\* the step that ends a call leaves the flag cleared: loading of Tests, of
\* Predictions and of Review, analyzing, isRefiningTest, generatingTest and
\* validating
C24_BusyFlagsCleared ==
  /\ [](tests_loading => Running({"Tests.handleGenerate"}) # {})
  /\ [](predictions_loading => Running({"Predictions.handlePredict"}) # {})
  /\ [](reviewPage.loading => Running({"Review.handleReview"}) # {})
  /\ [](analyzing => Running(ReviewTriggers) # {})
  /\ [](isRefiningTest => Running({"handleRefineTest"}) # {})
  /\ [](generatingTest # <<>> => Running({"handleGenerateTest"}) # {})
  /\ [](githubForm.validating => Running({"handleValidateGitHub"}) # {})
  /\ [][Settles({"Tests.handleGenerate"}) => ~tests_loading']_vars
  /\ [][Settles({"Predictions.handlePredict"}) => ~predictions_loading']_vars
  /\ [][Settles({"Review.handleReview"}) => ~reviewPage'.loading]_vars
  /\ [][Settles(ReviewTriggers) => ~analyzing']_vars
  /\ [][Settles({"handleRefineTest"}) => ~isRefiningTest']_vars
  /\ [][Settles({"handleGenerateTest"}) => generatingTest' = <<>>]_vars
  /\ [][Settles({"handleValidateGitHub"}) => ~githubForm'.validating]_vars

\* a validation has failed and has left its flag cleared
C24_Witness ==
  /\ githubForm.validationResult = [valid |-> FALSE, error |-> "Validation failed"]
  /\ ~githubForm.validating
  /\ pending = EmptyBag

\* a generation has ended and has cleared generatingTest while another one is
\* still running
C24_WitnessDetails ==
  /\ generatingTest = <<>>
  /\ Running({"handleGenerateTest"}) # {}
  /\ previewTest # null

(***************************************************************************)
(* The preview after its dismissal.                                        *)
(***************************************************************************)
\* C25: a preview that is closed is opened by the answer of a generation
\* only: no other step, and so no answer of a refinement that was in flight
\* when the preview was dismissed or accepted, sets previewTest again
C25_ClosedPreviewStaysClosed ==
  [][previewTest = null /\ previewTest' # null => Settles({"handleGenerateTest"})]_vars

\* the preview of a file is open while the generation for the other file is
\* still in flight: its answer will arrive after a dismissal of this preview
C25_GenerationInFlightUnderPreview ==
  /\ previewTest # null
  /\ \E op \in PendingOf("handleGenerateTest") : op.filePath # previewTest.filePath

(***************************************************************************)
(* The Generate buttons.                                                   *)
(***************************************************************************)
GenerationsFor(filePath) ==
  {op \in PendingOf("handleGenerateTest") : op.filePath = filePath}

\* C26: while a generation request for a file is in flight, generatingTest is
\* the path of that file
C26_GeneratingTestHeld ==
  \A op \in PendingOf("handleGenerateTest") : generatingTest = op.filePath

\* C26 (the button): no second generation is started for a file whose
\* generation request is in flight
C26_OneGenerationPerFile ==
  [][\A op \in PendingOf("handleGenerateTest") :
       CopiesIn(op, pending) > 0
         => \A new \in GenerationsFor(op.filePath)' :
              CopiesIn(new, pending') <= CopiesIn(new, pending)]_vars

(***************************************************************************)
(* The order of the file listing.                                          *)
(***************************************************************************)
\* the listings with the files of a listing, in every order
ReorderingsOf(fs) ==
  {[i \in 1..Len(fs) |-> fs[p[i]]] : p \in Permutations(1..Len(fs))}

\* the covered source files that the repository page computes from a listing
CoveredIn(fs) ==
  sourceFilesWithTestsOf(sourceFilesOf(fs), testFilesOf(fs), data.analyses, data.tests)

\* C27: once the repository page has rendered the listing, every reordering
\* of the listing gives the same number of covered source files and the same
\* totalCoverage
C27_CoverageOrderIndependent ==
  (~loading /\ ~loadingFiles /\ ~renderError)
    => \A fs \in ReorderingsOf(files) :
         /\ Cardinality(CoveredIn(fs)) = Cardinality(sourceFilesWithTests)
         /\ totalCoverageOf(Cardinality(CoveredIn(fs)), Len(sourceFilesOf(fs))) = totalCoverage

\* the covered source files that the Repositories page computes from a listing
ListCoveredIn(fs) ==
  Repositories_sourceFilesWithTestsOf(Repositories_sourceFilesOf(fs),
                                      Repositories_testFilesOf(fs), repoAnalyses, repoTests)

\* C27 (Repositories): once loadRepositories has computed the coverage of the
\* repository, every reordering of the listing gives the same number of
\* covered source files and the same coverage
C27_ListCoverageOrderIndependent ==
  (~listLoading /\ ~Repositories_fails(RepoId))
    => \A fs \in ReorderingsOf(repoFiles) :
         /\ Cardinality(ListCoveredIn(fs)) = Cardinality(listSourceFilesWithTests)
         /\ roundTenths(Repositories_totalCoverageOf(
                          Cardinality(ListCoveredIn(fs)),
                          Len(Repositories_sourceFilesOf(fs)))) = repoStats[RepoId].coverage

(***************************************************************************)
(* Issues: the filters.                                                    *)
(***************************************************************************)
\* C28: once every request of loadIssues has been answered, none with a
\* failure, the issues on the page are the answer to the current filters
C28_LatestFiltersShown ==
  (PendingOf("Issues.loadIssues") = {} /\ console = "")
    => issuesPage.issues = issuesOf(issueParamsOf(issuesPage.filters))

====
